---- MODULE Spec2Model ----
(***************************************************************************)
(* Model of the analytics pipeline of the tax-optimization assistant:      *)
(*   PatternAnalyzer.analyze_patterns  (src/src/pattern_analyzer.py)       *)
(*   TipGenerator.generate_tips_for_user (src/src/tip_generator.py)        *)
(*                                                                         *)
(* Numbers.  Amounts, incomes and deductions are whole euros.  Derived     *)
(* quantities are kept as scaled integers:                                 *)
(*   potential_deduction   tenths of a euro                                *)
(*   potential_savings     1e-5 euro                                       *)
(*   confidence            tenths                                          *)
(*   score                 1e-6 euro  (potential_savings * confidence)     *)
(*   tax rates             hundredths                                      *)
(*   deduction_rate etc.   hundredths of a percent (the code rounds to 2)  *)
(*   avg_deduction_rate    1e-4 percent                                    *)
(***************************************************************************)
EXTENDS Integers, Sequences, FiniteSets, TLC

VARIABLES
    transactions,   \* transactions_df rows, in row order
    users,          \* users_df rows
    filings,        \* tax_filings_df rows
    tx_columns,     \* column names of transactions_df
    patterns,       \* PatternAnalyzer.patterns (self.patterns)
    user_features,  \* the feature matrix of the last analyze_patterns
    n_clusters,     \* n_clusters passed to KMeans by the last clustering (0: none)
    analysis_status, \* "none" | "ok": how the last analyze_patterns ended
    tip_user,       \* user_id of the last generate_tips_for_user call (0: none)
    tip_patterns,   \* the patterns argument of that call
    tip_status,     \* "none" | "ok" | "KeyError"
    tips_all,       \* the local list `tips` after sorting and numbering
    tips,           \* the returned list, tips[:10]
    all_tips,       \* main's all_tips dict: <<>> until its loop has run, <<dict>> after
    receipt_data,   \* the receipts DocumentProcessor.process_receipts extracted
    payslip_data,   \* the payslips DocumentProcessor.process_payslips extracted
    kmeans_labels,  \* what KMeans(random_state=42) answers for the feature
                    \* matrix of these tables: <<>> until it is asked, <<labels>>
    tax_income,     \* the income _get_tax_bracket was last asked for, in cents
    tax_rate,       \* the rate it returned, in hundredths (-1: not asked)
    engine_status,  \* how SimilaritySearchEngine.__init__ ended: "ok" | "WeaviateError"
    weaviate_client, \* self.weaviate_client: TRUE for a client, FALSE for None
    index,          \* self.index: <<>> for None, <<vectors>> for a FAISS index
    transaction_embeddings, \* self.transaction_embeddings: <<>> or <<vectors>>
    transactions_df, \* self.transactions_df: <<>> for None, <<rows>> for a table
    index_file,     \* the index file on disk: <<>> when absent, <<vectors>>
    build_status,   \* how the last build_index ended: "none" | "ok" | an error
    mirror_log,     \* the last log line about the external store
    last_query      \* the call the caller is looking at, and its outcome

pipeline_vars == <<transactions, users, filings, tx_columns, patterns, user_features,
                   n_clusters, analysis_status, tip_user, tip_patterns, tip_status,
                   tips_all, tips, all_tips, receipt_data, payslip_data,
                   kmeans_labels, tax_income, tax_rate>>

engine_vars == <<engine_status, weaviate_client, index, transaction_embeddings,
                 transactions_df, index_file, build_status, mirror_log, last_query>>

vars == <<transactions, users, filings, tx_columns, patterns, user_features,
          n_clusters, analysis_status, tip_user, tip_patterns, tip_status, tips_all, tips,
          all_tips, receipt_data, payslip_data, kmeans_labels, tax_income, tax_rate,
          engine_status, weaviate_client, index, transaction_embeddings,
          transactions_df, index_file, build_status, mirror_log, last_query>>

(***************************************************************************)
(* Bounds of the model.                                                    *)
(***************************************************************************)
MaxTx == 3          \* rows of transactions_df in the tip specification
MaxRows == 5        \* users in the clustering specification

(***************************************************************************)
(* Generic helpers.                                                        *)
(***************************************************************************)
Min(a, b) == IF a <= b THEN a ELSE b
Max(a, b) == IF a >= b THEN a ELSE b

RECURSIVE SumSeq(_)
SumSeq(s) == IF s = <<>> THEN 0 ELSE Head(s) + SumSeq(Tail(s))

RECURSIVE Amounts(_)
Amounts(s) == IF s = <<>> THEN <<>> ELSE <<Head(s).amount>> \o Amounts(Tail(s))

\* df['amount'].sum()
AmountSum(s) == SumSeq(Amounts(s))

\* round-half-even of num/den (numpy round), den > 0, num >= 0
RoundDiv(num, den) ==
    LET q == num \div den
        r == num % den
    IN  IF 2 * r < den THEN q
        ELSE IF 2 * r > den THEN q + 1
        ELSE IF q % 2 = 0 THEN q ELSE q + 1

RECURSIVE ISqrtBetween(_, _, _)
\* largest r in lo..hi with r*r <= x  (requires lo*lo <= x)
ISqrtBetween(x, lo, hi) ==
    IF lo >= hi THEN lo
    ELSE LET mid == (lo + hi + 1) \div 2
         IN  IF mid * mid <= x THEN ISqrtBetween(x, mid, hi)
             ELSE ISqrtBetween(x, lo, mid - 1)

ISqrt(x) == ISqrtBetween(x, 0, 46340)

\* NaN of a pandas mean()/std() over too few values; every real value of
\* the model is non-negative, and NaN > c is False as -1 > c is
NaN == 0 - 1

(***************************************************************************)
(* TipGenerator.__init__: the rule table and the tax brackets.             *)
(***************************************************************************)
\* keys of deduction_rules in insertion order
DeductionCategories ==
    <<"Work Equipment", "Professional Development", "Medical",
      "Charitable Donations", "Transportation">>

DeductibleSet == {DeductionCategories[i] : i \in 1..Len(DeductionCategories)}

\* deduction_rate in tenths; max_annual 0 stands for None
deduction_rules ==
    [c \in DeductibleSet |->
        CASE c = "Work Equipment" ->
                [deduction_rate |-> 10, min_amount |-> 50, max_annual |-> 800]
          [] c = "Professional Development" ->
                [deduction_rate |-> 10, min_amount |-> 100, max_annual |-> 4000]
          [] c = "Medical" ->
                [deduction_rate |-> 8, min_amount |-> 100, max_annual |-> 0]
          [] c = "Charitable Donations" ->
                [deduction_rate |-> 10, min_amount |-> 25, max_annual |-> 0]
          [] c = "Transportation" ->
                [deduction_rate |-> 6, min_amount |-> 200, max_annual |-> 2000]]

\* (min_income, max_income, rate in hundredths); max 0 stands for float('inf')
tax_brackets ==
    << <<0, 10908, 0>>, <<10909, 15999, 14>>, <<16000, 62809, 24>>,
       <<62810, 277825, 42>>, <<277826, 0, 45>> >>

RECURSIVE BracketScan(_, _)
\* the for loop of _get_tax_bracket over the bands from position i on;
\* the income is given in cents so that non-integer incomes can be asked
BracketScan(cents, i) ==
    IF i > Len(tax_brackets) THEN 45
    ELSE LET b == tax_brackets[i]
         IN  IF b[1] * 100 <= cents /\ (b[2] = 0 \/ cents <= b[2] * 100)
             THEN b[3]
             ELSE BracketScan(cents, i + 1)

\* variant: the income is truncated to whole euros before the lookup
get_tax_bracket_truncated(cents) == BracketScan((cents \div 100) * 100, 1)

\* _get_tax_bracket(income), income in cents, result in hundredths
get_tax_bracket_cents(cents) == BracketScan(cents, 1)

\* _get_tax_bracket has not been asked
NoBracketCall ==
    /\ tax_income = 0
    /\ tax_rate = 0 - 1

\* _get_tax_bracket(income) for a whole-euro income
get_tax_bracket(income) == get_tax_bracket_cents(income * 100)

\* variant: the MEDIUM threshold is 100 instead of 50
calculate_priority_100(score) ==
    IF score > 200 * 1000000 THEN "HIGH"
    ELSE IF score > 100 * 1000000 THEN "MEDIUM"
    ELSE "LOW"

\* _calculate_priority on the score (1e-6 euro)
calculate_priority(score) ==
    IF score > 200 * 1000000 THEN "HIGH"
    ELSE IF score > 50 * 1000000 THEN "MEDIUM"
    ELSE "LOW"

\* the sort key  x['potential_savings'] * x['confidence']
Score(t) == t.potential_savings * t.confidence

\* dict.get(k, default)
Get(d, k, default) == IF k \in DOMAIN d THEN d[k] ELSE default

\* {} : the empty dict
EmptyDict == <<>>

(***************************************************************************)
(* TipGenerator._generate_deduction_tips                                   *)
(***************************************************************************)
\* transactions_df[transactions_df['category'] == category]
CategoryRows(tx, c) == LET Test(r) == r.category = c IN SelectSeq(tx, Test)

\* variant: the annual cap is not applied
PotentialDeductionUncapped(total_spending, rules) ==
    total_spending * rules.deduction_rate

\* min(total_spending * deduction_rate, max_annual or inf), in tenths
PotentialDeduction(total_spending, rules) ==
    IF rules.max_annual = 0
    THEN total_spending * rules.deduction_rate
    ELSE Min(total_spending * rules.deduction_rate, rules.max_annual * 10)

\* the qualifying test of line 120
Qualifies(potential_deduction, rules) ==
    potential_deduction >= rules.min_amount * 10

\* the body of the loop for one category: <<>> or one tip.
\* tax_data is <<>> (None) or <<row>>
DeductionTip(c, tx, tax_data) ==
    LET rules == deduction_rules[c]
        category_transactions == CategoryRows(tx, c)
        total_spending == AmountSum(category_transactions)
        potential_deduction == PotentialDeduction(total_spending, rules)
        current_deductions ==
            IF tax_data # <<>> THEN tax_data[1].total_deductions ELSE 0
        estimated_missed == Max(0, potential_deduction - current_deductions * 2)
        tax_bracket ==
            get_tax_bracket(IF tax_data # <<>> THEN tax_data[1].total_income
                            ELSE 50000)
    IN  IF category_transactions = <<>> THEN <<>>
        ELSE IF ~Qualifies(potential_deduction, rules) THEN <<>>
        ELSE IF ~(estimated_missed > 500) THEN <<>>
        ELSE << [type |-> "deduction_opportunity",
                 category |-> c,
                 potential_deduction |-> potential_deduction,
                 potential_savings |-> estimated_missed * tax_bracket * 100,
                 confidence |-> 8] >>

RECURSIVE DeductionTipsFrom(_, _, _)
DeductionTipsFrom(i, tx, tax_data) ==
    IF i > Len(DeductionCategories) THEN <<>>
    ELSE DeductionTip(DeductionCategories[i], tx, tax_data)
            \o DeductionTipsFrom(i + 1, tx, tax_data)

generate_deduction_tips(tx, tax_data) == DeductionTipsFrom(1, tx, tax_data)

(***************************************************************************)
(* TipGenerator._generate_timing_tips                                      *)
(***************************************************************************)
\* potential_savings of the December tip: avg_charitable * 0.1  (1e-5 euro;
\* the mean is floored to that unit)
CharitableSavings(charitable_december) ==
    (AmountSum(charitable_december) * 10000) \div Len(charitable_december)

CharitableTimingTip(tx) ==
    LET Test(r) == r.month = 12 /\ r.category = "Charitable Donations"
        charitable_december == SelectSeq(tx, Test)
    IN  IF charitable_december = <<>> THEN <<>>
        ELSE << [type |-> "timing_optimization",
                 category |-> "Charitable Donations",
                 potential_savings |-> CharitableSavings(charitable_december),
                 confidence |-> 7] >>

RECURSIVE SumOver(_, _)
\* sum of f over the finite set S of integers
SumOver(S, f) ==
    IF S = {} THEN 0
    ELSE LET m == CHOOSE m \in S : \A k \in S : m <= k
         IN  f[m] + SumOver(S \ {m}, f)

\* medical_transactions.groupby('month')['amount'].sum()
MonthlySums(medical) ==
    LET months == {medical[i].month : i \in 1..Len(medical)}
    IN  [m \in months |->
            LET Test(r) == r.month = m IN AmountSum(SelectSeq(medical, Test))]

\* numerator and denominator of the sample variance (ddof = 1) of the
\* monthly sums: (n*Sum x^2 - (Sum x)^2) / (n*(n-1))
VarNum(by_month) ==
    LET n == Cardinality(DOMAIN by_month)
        sq == [m \in DOMAIN by_month |-> by_month[m] * by_month[m]]
        s == SumOver(DOMAIN by_month, by_month)
    IN  n * SumOver(DOMAIN by_month, sq) - s * s

VarDen(by_month) ==
    LET n == Cardinality(DOMAIN by_month) IN n * (n - 1)

\* variant: the threshold is 50
MedicalVarianceHighFifty(by_month) ==
    /\ VarDen(by_month) > 0
    /\ VarNum(by_month) > 2500 * VarDen(by_month)

\* medical_variance > 100   (std of one value is NaN, and NaN > 100 is False)
MedicalVarianceHigh(by_month) ==
    /\ VarDen(by_month) > 0
    /\ VarNum(by_month) > 10000 * VarDen(by_month)

\* medical_by_month.std() in tenths of a euro, floored
MedicalStd(by_month) ==
    IF VarDen(by_month) = 0 THEN NaN
    ELSE ISqrt((VarNum(by_month) * 100) \div VarDen(by_month))

MedicalTimingTip(tx) ==
    LET medical == CategoryRows(tx, "Medical")
        by_month == MonthlySums(medical)
    IN  IF medical = <<>> THEN <<>>
        ELSE IF ~MedicalVarianceHigh(by_month) THEN <<>>
        ELSE << [type |-> "timing_optimization",
                 category |-> "Medical",
                 potential_savings |-> MedicalStd(by_month) * 2000,
                 confidence |-> 6] >>

\* groupby('month') on a frame without that column raises KeyError
TimingRaises(tx, columns) ==
    CategoryRows(tx, "Medical") # <<>> /\ "month" \notin columns

generate_timing_tips(tx) == CharitableTimingTip(tx) \o MedicalTimingTip(tx)

(***************************************************************************)
(* TipGenerator._generate_category_optimization_tips                       *)
(***************************************************************************)
\* A dict value is tagged: [t |-> "num", v |-> n] a number,
\* [t |-> "dict", v |-> <<values in key order>>] a dict.
\* occupation_patterns.get(user_occupation, {}).get('sum', user_total) with
\* the isinstance(dict) unwrapping of lines 225-226
AvgOccupationSpending(occupation_patterns, user_occupation, user_total_spending) ==
    LET entry == Get(occupation_patterns, user_occupation, EmptyDict)
        raw == Get(entry, "sum", [t |-> "num", v |-> user_total_spending])
    IN  IF raw.t = "dict"
        THEN (IF raw.v # <<>> THEN raw.v[1] ELSE user_total_spending)
        ELSE raw.v

\* category_ratio in hundredths
CategoryRatio(c) == IF c = "Professional Development" THEN 10 ELSE 5

\* user_category_spending < expected_spending * 0.5
UnderSpending(user_category_spending, avg_occupation_spending, c) ==
    user_category_spending * 200 < avg_occupation_spending * CategoryRatio(c)

CategoryTip(c, tx, avg_occupation_spending) ==
    LET user_category_spending == AmountSum(CategoryRows(tx, c))
    IN  IF ~UnderSpending(user_category_spending, avg_occupation_spending, c)
        THEN <<>>
        ELSE << [type |-> "category_optimization",
                 category |-> c,
                 potential_savings |->
                     avg_occupation_spending * CategoryRatio(c)
                       * deduction_rules[c].deduction_rate
                       * get_tax_bracket(50000),
                 confidence |-> 5] >>

RECURSIVE CategoryTipsFrom(_, _, _)
CategoryTipsFrom(i, tx, avg_occupation_spending) ==
    IF i > Len(DeductionCategories) THEN <<>>
    ELSE CategoryTip(DeductionCategories[i], tx, avg_occupation_spending)
            \o CategoryTipsFrom(i + 1, tx, avg_occupation_spending)

\* patterns.get('demographic_patterns', {}).get('spending_by_occupation', {})
OccupationPatterns(p) ==
    Get(Get(p, "demographic_patterns", EmptyDict),
        "spending_by_occupation", EmptyDict)

\* if user_occupation in occupation_patterns
OccupationKnown(occupation_patterns, user_occupation) ==
    user_occupation \in DOMAIN occupation_patterns

generate_category_optimization_tips(tx, user_info, p) ==
    LET user_occupation == user_info.occupation_category
        occupation_patterns == OccupationPatterns(p)
    IN  IF OccupationKnown(occupation_patterns, user_occupation)
        THEN CategoryTipsFrom(1, tx,
                AvgOccupationSpending(occupation_patterns, user_occupation,
                                      AmountSum(tx)))
        ELSE <<>>

(***************************************************************************)
(* TipGenerator._generate_similar_user_tips                                *)
(***************************************************************************)
RECURSIVE FindUserCluster(_, _)
\* the for loop of lines 273-277: <<>> (None) or <<cluster>>
FindUserCluster(user_clusters, user_id) ==
    IF user_clusters = <<>> THEN <<>>
    ELSE IF Head(user_clusters).user_id = user_id
         THEN <<Head(user_clusters).cluster>>
         ELSE FindUserCluster(Tail(user_clusters), user_id)

\* f'cluster_{cluster_id}'
ClusterKey(cluster_id) == "cluster_" \o ToString(cluster_id)

\* variant: the threshold is 3 percent
GoodDeductionRateThree(avg_deduction_rate) == avg_deduction_rate > 30000

\* avg_deduction_rate > 5
GoodDeductionRate(avg_deduction_rate) == avg_deduction_rate > 50000

generate_similar_user_tips(user_id, p) ==
    LET clustering_patterns == Get(p, "clustering_patterns", EmptyDict)
        user_clusters == Get(clustering_patterns, "user_clusters", <<>>)
        user_cluster == FindUserCluster(user_clusters, user_id)
        cluster_analysis == Get(clustering_patterns, "cluster_analysis", EmptyDict)
        cluster_info ==
            IF user_cluster = <<>> THEN EmptyDict
            ELSE Get(cluster_analysis, ClusterKey(user_cluster[1]), EmptyDict)
        avg_deduction_rate == Get(cluster_info, "avg_deduction_rate", 0)
    IN  IF user_cluster = <<>> THEN <<>>
        ELSE IF ~GoodDeductionRate(avg_deduction_rate) THEN <<>>
        ELSE << [type |-> "peer_learning",
                 category |-> "General",
                 potential_savings |-> avg_deduction_rate * 100,
                 confidence |-> 4] >>

(***************************************************************************)
(* TipGenerator._generate_compliance_tips                                  *)
(***************************************************************************)
\* variant: no threshold on the amount or on the income
generate_compliance_tips_any_amount(tx, tax_data) ==
    LET Test(r) == r.amount > 0 /\ r.category \in DeductibleSet
        deductible_large == SelectSeq(tx, Test)
        documentation ==
            IF deductible_large # <<>>
            THEN << [type |-> "compliance", category |-> "Documentation",
                     potential_savings |-> 0, confidence |-> 9] >>
            ELSE <<>>
        planning ==
            IF tax_data # <<>> /\ tax_data[1].total_income > 0
            THEN << [type |-> "compliance", category |-> "Tax Planning",
                     potential_savings |-> tax_data[1].total_income * 1000,
                     confidence |-> 7] >>
            ELSE <<>>
    IN  documentation \o planning

generate_compliance_tips(tx, tax_data) ==
    LET Test(r) == r.amount > 500 /\ r.category \in DeductibleSet
        deductible_large == SelectSeq(tx, Test)
        documentation ==
            IF deductible_large # <<>>
            THEN << [type |-> "compliance", category |-> "Documentation",
                     potential_savings |-> 0, confidence |-> 9] >>
            ELSE <<>>
        planning ==
            IF tax_data # <<>> /\ tax_data[1].total_income > 60000
            THEN << [type |-> "compliance", category |-> "Tax Planning",
                     potential_savings |-> tax_data[1].total_income * 1000,
                     confidence |-> 7] >>
            ELSE <<>>
    IN  documentation \o planning

(***************************************************************************)
(* TipGenerator.generate_tips_for_user                                     *)
(***************************************************************************)
\* df[df['user_id'] == user_id]
UserRows(df, user_id) == LET Test(r) == r.user_id = user_id IN SelectSeq(df, Test)

\* ....iloc[0] if not ....empty else None
FirstOrNone(rows) == IF rows = <<>> THEN <<>> ELSE <<rows[1]>>

RECURSIVE InsertByScore(_, _)
\* place t behind every element whose score is >= its own
InsertByScore(sorted, t) ==
    IF sorted = <<>> THEN <<t>>
    ELSE IF Score(Head(sorted)) >= Score(t)
         THEN <<Head(sorted)>> \o InsertByScore(Tail(sorted), t)
         ELSE <<t>> \o sorted

RECURSIVE SortFrom(_, _)
SortFrom(sorted, rest) ==
    IF rest = <<>> THEN sorted
    ELSE SortFrom(InsertByScore(sorted, Head(rest)), Tail(rest))

RECURSIVE ReverseSeq(_)
ReverseSeq(q) == IF q = <<>> THEN <<>> ELSE ReverseSeq(Tail(q)) \o <<Head(q)>>

\* variant: the sort without reverse=True
SortTipsAscending(ts) == ReverseSeq(SortFrom(<<>>, ts))

\* tips.sort(key=score, reverse=True): stable, descending
SortTips(ts) == SortFrom(<<>>, ts)

\* f"{i+1:03d}"
Pad3(n) ==
    IF n < 10 THEN "00" \o ToString(n)
    ELSE IF n < 100 THEN "0" \o ToString(n)
    ELSE ToString(n)

\* f"TIP_{user_id}_{i+1:03d}" for the tip at 1-based position pos
TipId(user_id, pos) == "TIP_" \o ToString(user_id) \o "_" \o Pad3(pos)

\* variant: the rank is the 0-based index i instead of i+1
NumberTipsZeroBased(user_id, ts) ==
    [i \in 1..Len(ts) |->
        ts[i] @@ [tip_id |-> TipId(user_id, i - 1),
                  priority |-> calculate_priority(Score(ts[i]))]]

\* the loop of lines 99-101
NumberTips(user_id, ts) ==
    [i \in 1..Len(ts) |->
        ts[i] @@ [tip_id |-> TipId(user_id, i),
                  priority |-> calculate_priority(Score(ts[i]))]]

\* tips[:10]
TopTen(ts) == SubSeq(ts, 1, Min(10, Len(ts)))

\* the tips of the five rules, in the order they are appended
EmittedTips(user_id, tx, user_info, tax_data, p) ==
    generate_deduction_tips(tx, tax_data)
      \o generate_timing_tips(tx)
      \o generate_category_optimization_tips(tx, user_info, p)
      \o generate_similar_user_tips(user_id, p)
      \o generate_compliance_tips(tx, tax_data)

\* variant: missing user data is an error instead of an empty result
generate_tips_for_user_unguarded(user_id, tx_df, columns, users_df, filings_df, p) ==
    LET user_info == FirstOrNone(UserRows(users_df, user_id))
        user_transactions == UserRows(tx_df, user_id)
        user_tax_data == FirstOrNone(UserRows(filings_df, user_id))
    IN  IF user_info = <<>> \/ user_transactions = <<>>
        THEN [status |-> "IndexError", all |-> <<>>, returned |-> <<>>]
        ELSE IF TimingRaises(user_transactions, columns)
        THEN [status |-> "KeyError", all |-> <<>>, returned |-> <<>>]
        ELSE LET numbered ==
                    NumberTips(user_id,
                        SortTips(EmittedTips(user_id, user_transactions,
                                    user_info[1], user_tax_data, p)))
             IN  [status |-> "ok", all |-> numbered,
                  returned |-> TopTen(numbered)]

\* the outcome of generate_tips_for_user as [status, all, returned]
generate_tips_for_user(user_id, tx_df, columns, users_df, filings_df, p) ==
    LET user_info == FirstOrNone(UserRows(users_df, user_id))
        user_transactions == UserRows(tx_df, user_id)
        user_tax_data == FirstOrNone(UserRows(filings_df, user_id))
    IN  IF user_info = <<>> \/ user_transactions = <<>>
        THEN [status |-> "ok", all |-> <<>>, returned |-> <<>>]
        ELSE IF TimingRaises(user_transactions, columns)
        THEN [status |-> "KeyError", all |-> <<>>, returned |-> <<>>]
        ELSE LET numbered ==
                    NumberTips(user_id,
                        SortTips(EmittedTips(user_id, user_transactions,
                                    user_info[1], user_tax_data, p)))
             IN  [status |-> "ok", all |-> numbered,
                  returned |-> TopTen(numbered)]

(***************************************************************************)
(* PatternAnalyzer                                                         *)
(***************************************************************************)
\* the columns DataLoader.load_csv_data gives transactions_df
BaseColumns ==
    {"transaction_id", "user_id", "amount", "category", "subcategory",
     "vendor", "description", "transaction_date"}

\* the columns the stages of analyze_patterns assign on transactions_df
\* itself (lines 98, 194-196, 425)
AddedColumns == {"month", "quarter", "year"}

RECURSIVE MergeOnUserId(_, _)
\* left.merge(right, on='user_id'): inner join, left row order, one output
\* row per matching right row
MergeOnUserId(left, right) ==
    IF left = <<>> THEN <<>>
    ELSE LET matches == UserRows(right, Head(left).user_id)
         IN  [i \in 1..Len(matches) |-> Head(left) @@ matches[i]]
                \o MergeOnUserId(Tail(left), right)

\* alphabetical order of the occupation names (groupby and mode sort them)
OccupationsSorted == <<"Engineer", "Teacher">>

\* occupation_spending.to_dict() after the columns were renamed (lines
\* 125-127): column name -> {occupation -> value}
SpendingByOccupation(tx_df, users_df) ==
    LET user_transactions == MergeOnUserId(tx_df, users_df)
        occs == {user_transactions[i].occupation_category :
                    i \in 1..Len(user_transactions)}
        RowsOf(o) == LET Test(r) == r.occupation_category = o
                     IN  SelectSeq(user_transactions, Test)
    IN  [col \in {"amount_sum", "amount_mean", "amount_count"} |->
            [o \in occs |->
                CASE col = "amount_sum" ->
                        [t |-> "num", v |-> AmountSum(RowsOf(o))]
                  [] col = "amount_mean" ->
                        [t |-> "num",
                         v |-> RoundDiv(AmountSum(RowsOf(o)) * 100, Len(RowsOf(o)))]
                  [] col = "amount_count" ->
                        [t |-> "num", v |-> Len(RowsOf(o))]]]

analyze_demographic_patterns(users_df, tx_df) ==
    [spending_by_occupation |-> SpendingByOccupation(tx_df, users_df)]

(***************************************************************************)
(* PatternAnalyzer._create_user_feature_matrix                             *)
(***************************************************************************)
RECURSIVE SortedSeq(_)
\* the elements of a finite set of integers in increasing order
SortedSeq(S) ==
    IF S = {} THEN <<>>
    ELSE LET m == CHOOSE m \in S : \A k \in S : m <= k
         IN  <<m>> \o SortedSeq(S \ {m})

\* transactions_df.groupby('user_id').agg(...).round(2).reset_index():
\* one row per user_id of the transaction table, in user_id order
UserSpending(tx_df) ==
    LET ids == SortedSeq({tx_df[i].user_id : i \in 1..Len(tx_df)})
    IN  [k \in 1..Len(ids) |->
            LET rows == UserRows(tx_df, ids[k])
            IN  [user_id |-> ids[k],
                 total_spending |-> AmountSum(rows),
                 avg_transaction |-> RoundDiv(AmountSum(rows) * 100, Len(rows)),
                 transaction_count |-> Len(rows),
                 category_diversity |->
                     Cardinality({rows[i].category : i \in 1..Len(rows)})]]

\* category_percentages (lines 323-325): per user, category -> share of the
\* user's spend in hundredths of a percent; the frame is built and then
\* not used
CategoryPercentages(tx_df) ==
    LET ids == {tx_df[i].user_id : i \in 1..Len(tx_df)}
        cats == {tx_df[i].category : i \in 1..Len(tx_df)}
    IN  [u \in ids |->
            [c \in cats |->
                RoundDiv(AmountSum(CategoryRows(UserRows(tx_df, u), c)) * 10000,
                         AmountSum(UserRows(tx_df, u)))]]

\* the derived features of lines 332-333, hundredths of a percent
WithDerived(row) ==
    row @@ [deduction_rate |->
                RoundDiv(row.total_deductions * 10000, row.total_income),
            spending_rate |->
                RoundDiv(row.total_spending * 10000, row.total_income)]

create_user_feature_matrix(tx_df, users_df, filings_df) ==
    LET merged == MergeOnUserId(MergeOnUserId(UserSpending(tx_df), users_df),
                                filings_df)
    IN  [i \in 1..Len(merged) |-> WithDerived(merged[i])]

(***************************************************************************)
(* PatternAnalyzer._perform_user_clustering                                *)
(***************************************************************************)
\* variant: always four clusters
NClustersFixed(n) == 4

\* n_clusters = min(4, len(user_features))
NClusters(n) == Min(4, n)

\* len(user_features) < 2
InsufficientData(features) == Len(features) < 2

\* the labelings KMeans.fit_predict may return for n rows and k clusters
Labelings(n, k) == [1..n -> 0..(k - 1)]

\* cluster_users['occupation_category'].mode().iloc[0] or 'Unknown':
\* mode() lists the most frequent values in sorted order
DominantOccupation(members) ==
    LET Count(o) == Cardinality({i \in 1..Len(members) :
                                    members[i].occupation_category = o})
        best == {j \in 1..Len(OccupationsSorted) :
                    /\ Count(OccupationsSorted[j]) > 0
                    /\ \A l \in 1..Len(OccupationsSorted) :
                          Count(OccupationsSorted[l]) <= Count(OccupationsSorted[j])}
    IN  IF best = {} THEN "Unknown"
        ELSE OccupationsSorted[CHOOSE j \in best : \A l \in best : j <= l]

RECURSIVE FieldSum(_, _)
FieldSum(rows, f) ==
    IF rows = <<>> THEN 0 ELSE Head(rows)[f] + FieldSum(Tail(rows), f)

\* variant: the members of a cluster are picked with <= instead of ==
ClusterSummaryUpTo(features, labels, cluster_id) ==
    LET idx == {i \in 1..Len(features) : labels[i] <= cluster_id}
        cluster_users == [k \in 1..Cardinality(idx) |-> features[SortedSeq(idx)[k]]]
        size == Len(cluster_users)
    IN  [size |-> size,
         avg_total_spending |->
            IF size = 0 THEN NaN
            ELSE (FieldSum(cluster_users, "total_spending") * 100) \div size,
         avg_deduction_rate |->
            IF size = 0 THEN NaN
            ELSE (FieldSum(cluster_users, "deduction_rate") * 100) \div size,
         dominant_occupation |-> DominantOccupation(cluster_users)]

\* the summary of one cluster (lines 294-300); means of no rows are NaN
ClusterSummary(features, labels, cluster_id) ==
    LET idx == {i \in 1..Len(features) : labels[i] = cluster_id}
        cluster_users == [k \in 1..Cardinality(idx) |-> features[SortedSeq(idx)[k]]]
        size == Len(cluster_users)
    IN  [size |-> size,
         avg_total_spending |->
            IF size = 0 THEN NaN
            ELSE (FieldSum(cluster_users, "total_spending") * 100) \div size,
         avg_deduction_rate |->
            IF size = 0 THEN NaN
            ELSE (FieldSum(cluster_users, "deduction_rate") * 100) \div size,
         dominant_occupation |-> DominantOccupation(cluster_users)]

\* the dict _perform_user_clustering returns when it skips clustering
ClusteringSkipped == [clustering_note |-> "Insufficient data for clustering"]

\* the dict _perform_user_clustering returns when KMeans answers labels
ClusteringResult(features, k, labels) ==
    [cluster_analysis |->
        [key \in {ClusterKey(c) : c \in 0..(k - 1)} |->
            ClusterSummary(features, labels,
                CHOOSE c \in 0..(k - 1) : ClusterKey(c) = key)],
     user_clusters |->
        [i \in 1..Len(features) |->
            [user_id |-> features[i].user_id, cluster |-> labels[i]]]]

(***************************************************************************)
(* PatternAnalyzer._analyze_document_patterns                              *)
(***************************************************************************)
\* [r.get(field) for r in rows if r.get(field)]: 0 stands for None
TruthyValues(rows, field) ==
    LET kept == SelectSeq(rows, LAMBDA r : r[field] # 0)
    IN  [i \in 1..Len(kept) |-> kept[i][field]]

\* np.mean(values) if values else 0, in hundredths
MeanOrZero(values) ==
    IF values = <<>> THEN 0 ELSE (SumSeq(values) * 100) \div Len(values)

\* the orders list(set(values)) may come out in: the iteration order of a
\* set of strings depends on the hash seed of the interpreter run
SetOrders(S) ==
    {order \in [1..Cardinality(S) -> S] :
        \A i, j \in 1..Cardinality(S) : i # j => order[i] # order[j]}

\* the names a list comprehension keeps: "" stands for None
Names(rows, field) ==
    {rows[i][field] : i \in {j \in 1..Len(rows) : rows[j][field] # ""}}

\* the receipt part of the document patterns
ReceiptPatterns(receipts, vendors) ==
    IF receipts = <<>> THEN EmptyDict
    ELSE LET receipt_amounts == TruthyValues(receipts, "total_amount")
         IN  [receipt_analysis |->
                [total_receipts |-> Len(receipts),
                 receipts_with_amounts |-> Len(receipt_amounts),
                 average_receipt_amount |-> MeanOrZero(receipt_amounts),
                 total_receipt_value |-> SumSeq(receipt_amounts)],
              receipt_vendors |-> vendors]

\* the payslip part of the document patterns; the rate is in hundredths of
\* a percent
PayslipPatterns(payslips, positions, departments) ==
    IF payslips = <<>> THEN EmptyDict
    ELSE LET gross_pays == TruthyValues(payslips, "gross_pay")
             net_pays == TruthyValues(payslips, "net_pay")
         IN  [payslip_analysis |->
                [total_payslips |-> Len(payslips),
                 average_gross_pay |-> MeanOrZero(gross_pays),
                 average_net_pay |-> MeanOrZero(net_pays),
                 average_deduction_rate |->
                    IF gross_pays # <<>> /\ net_pays # <<>>
                        THEN ((MeanOrZero(gross_pays) - MeanOrZero(net_pays)) * 10000)
                                \div MeanOrZero(gross_pays)
                    ELSE 0],
              employment_patterns |->
                [positions |-> positions, departments |-> departments]]

\* PatternAnalyzer._analyze_document_patterns, the three lists in the order
\* their sets are iterated in
analyze_document_patterns(receipts, payslips, vendors, positions, departments) ==
    ReceiptPatterns(receipts, vendors)
        @@ PayslipPatterns(payslips, positions, departments)

\* no documents were processed
NoDocuments ==
    /\ receipt_data = <<>>
    /\ payslip_data = <<>>

(***************************************************************************)
(* SimilaritySearchEngine (src/src/similarity_search.py).                  *)
(*                                                                         *)
(* The sentence-embedding model is an external function text -> vector.    *)
(* It is modelled as the indicator vector of the words of the text over a  *)
(* fixed vocabulary; a similarity score is a cosine in thousandths.  An    *)
(* optional field (None or a value) is <<>> or <<value>>.                  *)
(***************************************************************************)
MaxEngineRows == 3      \* rows of a table handed to build_index
MaxTopK == 2            \* largest top_k of a query

\* the transaction rows the engine's tables are drawn from
EnginePool ==
    << [user_id |-> 1, category |-> "Medical", subcategory |-> "Prescription",
        vendor |-> "Pharmacy", amount |-> 120],
       [user_id |-> 1, category |-> "Medical", subcategory |-> "Prescription",
        vendor |-> "Pharmacy", amount |-> 200],
       [user_id |-> 2, category |-> "Groceries", subcategory |-> "Food",
        vendor |-> "Market", amount |-> 40],
       [user_id |-> 2, category |-> "Medical", subcategory |-> "Prescription",
        vendor |-> "Pharmacy", amount |-> 80] >>

\* f"{row['category']} {row.get('subcategory', '')} {row['vendor']}
\* {row['amount']:.2f}€", as the set of its words
Description(row) ==
    {row.category, row.subcategory, row.vendor, ToString(row.amount) \o ".00€"}

Vocabulary ==
    UNION {Description(EnginePool[i]) : i \in 1..Len(EnginePool)} \cup {"Travel"}

\* self.model.encode([text])[0]
encode(words) == [w \in Vocabulary |-> IF w \in words THEN 1 ELSE 0]

\* self.model.encode(descriptions)
EncodeRows(df) == [i \in 1..Len(df) |-> encode(Description(df[i]))]

RECURSIVE SumWords(_, _)
\* sum of f over the finite set S of words
SumWords(S, f) ==
    IF S = {} THEN 0
    ELSE LET w == CHOOSE w \in S : TRUE
         IN  f[w] + SumWords(S \ {w}, f)

\* the inner product of two vectors
Dot(u, v) == SumWords(Vocabulary, [w \in Vocabulary |-> u[w] * v[w]])

\* inner product of the L2-normalised vectors, in thousandths
Cosine(u, v) ==
    IF Dot(u, u) = 0 \/ Dot(v, v) = 0 THEN 0
    ELSE (1000000 * Dot(u, v)) \div ISqrt(1000000 * Dot(u, u) * Dot(v, v))

RECURSIVE BestFirst(_, _, _, _)
\* the k best positions of S by descending score, equal scores by position
BestFirst(vectors, q, S, k) ==
    IF k = 0 \/ S = {} THEN <<>>
    ELSE LET best == CHOOSE i \in S : \A j \in S :
                        \/ Cosine(q, vectors[i]) > Cosine(q, vectors[j])
                        \/ /\ Cosine(q, vectors[i]) = Cosine(q, vectors[j])
                           /\ i <= j
         IN  <<[index |-> best - 1, similarity_score |-> Cosine(q, vectors[best])]>>
                \o BestFirst(vectors, q, S \ {best}, k - 1)

\* self.index.search(q, k): the entries before the -1 padding, as
\* (0-based index, score) pairs
IndexSearch(vectors, q, k) == BestFirst(vectors, q, 1..Len(vectors), k)

Returned(results) == [status |-> "ok", results |-> results]
Raised(error) == [status |-> error, results |-> <<>>]

RECURSIVE CollectResults(_, _, _, _, _)
\* the loop over the hits of a search: each hit is dereferenced with
\* self.transactions_df.iloc[idx], hits of exclude_user are skipped, and the
\* loop stops at limit results
CollectResults(hits, df, exclude_user, limit, results) ==
    IF hits = <<>> THEN Returned(results)
    ELSE IF df = <<>> THEN Raised("AttributeError")
    ELSE IF Head(hits).index >= Len(df[1]) THEN Raised("IndexError")
    ELSE LET transaction == df[1][Head(hits).index + 1]
             extended == Append(results,
                            [transaction |-> transaction,
                             similarity_score |-> Head(hits).similarity_score,
                             index |-> Head(hits).index])
         IN  IF exclude_user # 0 /\ transaction.user_id = exclude_user
                THEN CollectResults(Tail(hits), df, exclude_user, limit, results)
             ELSE IF Len(extended) >= limit THEN Returned(extended)
             ELSE CollectResults(Tail(hits), df, exclude_user, limit, extended)

\* SimilaritySearchEngine.find_similar_transactions; exclude_user 0 is None
find_similar_transactions(self, query_transaction, top_k, exclude_user, encode_ok) ==
    IF self.index = <<>> THEN Raised("Index not built")
    ELSE IF ~encode_ok THEN Raised("EncodeError")
    ELSE CollectResults(
            IndexSearch(self.index[1], encode(Description(query_transaction)),
                        top_k * 2),
            self.transactions_df, exclude_user, top_k, <<>>)

\* variant: an empty filter result is an error
find_similar_by_category_strict(self, category, subcategory, top_k) ==
    IF self.transactions_df = <<>> THEN Raised("TypeError")
    ELSE
    LET df == self.transactions_df[1]
        indices == {i \in 1..Len(df) :
                        /\ df[i].category = category
                        /\ subcategory # "" => df[i].subcategory = subcategory}
    IN  IF indices = {} THEN Raised("ValueError")
        ELSE IF self.transaction_embeddings = <<>> THEN Raised("TypeError")
        ELSE IF \E i \in indices : i > Len(self.transaction_embeddings[1])
            THEN Raised("IndexError")
        ELSE IF self.index = <<>> THEN Raised("AttributeError")
        ELSE
        LET avg_embedding ==
                [w \in Vocabulary |->
                    SumOver(indices,
                            [i \in indices |-> self.transaction_embeddings[1][i][w]])]
            hits == IndexSearch(self.index[1], avg_embedding, top_k)
        IN  CollectResults(hits, self.transactions_df, 0, Len(hits), <<>>)

\* SimilaritySearchEngine.find_similar_by_category; subcategory "" is None
find_similar_by_category(self, category, subcategory, top_k) ==
    IF self.transactions_df = <<>> THEN Raised("TypeError")
    ELSE
    LET df == self.transactions_df[1]
        indices == {i \in 1..Len(df) :
                        /\ df[i].category = category
                        /\ subcategory # "" => df[i].subcategory = subcategory}
    IN  IF indices = {} THEN Returned(<<>>)
        ELSE IF self.transaction_embeddings = <<>> THEN Raised("TypeError")
        ELSE IF \E i \in indices : i > Len(self.transaction_embeddings[1])
            THEN Raised("IndexError")
        ELSE IF self.index = <<>> THEN Raised("AttributeError")
        ELSE
        LET avg_embedding ==
                [w \in Vocabulary |->
                    SumOver(indices,
                            [i \in indices |-> self.transaction_embeddings[1][i][w]])]
            hits == IndexSearch(self.index[1], avg_embedding, top_k)
        IN  CollectResults(hits, self.transactions_df, 0, Len(hits), <<>>)

\* the rows of df that satisfy user_id == ..., in row order
RowsOfUser(df, user_id) == SelectSeq(df, LAMBDA r : r.user_id = user_id)

RECURSIVE UniqueCategories(_, _)
\* user_transactions['category'].unique(): in order of first occurrence
UniqueCategories(rows, seen) ==
    IF rows = <<>> THEN <<>>
    ELSE IF Head(rows).category \in seen THEN UniqueCategories(Tail(rows), seen)
    ELSE <<Head(rows).category>>
            \o UniqueCategories(Tail(rows), seen \cup {Head(rows).category})

RECURSIVE SimilarOfRows(_, _, _, _)
\* similar_transactions after the loop over category_transactions: the
\* results of find_similar_transactions(row, top_k=5, exclude_user=user_id)
SimilarOfRows(self, rows, user_id, encode_ok) ==
    IF rows = <<>> THEN Returned(<<>>)
    ELSE LET similar == find_similar_transactions(self, Head(rows), 5, user_id,
                                                  encode_ok)
             rest == SimilarOfRows(self, Tail(rows), user_id, encode_ok)
         IN  IF similar.status # "ok" THEN similar
             ELSE IF rest.status # "ok" THEN rest
             ELSE Returned(similar.results \o rest.results)

\* variant: items of an index already seen are kept
UniqueByIndexKeepAll(items, seen_indices) == items

RECURSIVE UniqueByIndex(_, _)
\* the first item of every index, in order
UniqueByIndex(items, seen_indices) ==
    IF items = <<>> THEN <<>>
    ELSE IF Head(items).index \in seen_indices
        THEN UniqueByIndex(Tail(items), seen_indices)
    ELSE <<Head(items)>>
            \o UniqueByIndex(Tail(items), seen_indices \cup {Head(items).index})

RECURSIVE InsertBySimilarity(_, _)
\* place item behind every element whose score is >= its own
InsertBySimilarity(sorted, item) ==
    IF sorted = <<>> THEN <<item>>
    ELSE IF Head(sorted).similarity_score >= item.similarity_score
        THEN <<Head(sorted)>> \o InsertBySimilarity(Tail(sorted), item)
    ELSE <<item>> \o sorted

RECURSIVE SortBySimilarity(_, _)
\* sorted(items, key=similarity_score, reverse=True): a stable sort
SortBySimilarity(sorted, rest) ==
    IF rest = <<>> THEN sorted
    ELSE SortBySimilarity(InsertBySimilarity(sorted, Head(rest)), Tail(rest))

Take(s, k) == SubSeq(s, 1, Min(k, Len(s)))

RECURSIVE PatternsOfCategories(_, _, _, _, _, _)
\* the loop over the user's categories; the dict is kept as the sequence of
\* its (category, similar) items in insertion order
PatternsOfCategories(self, categories, user_transactions, user_id, top_k, encode_ok) ==
    IF categories = <<>> THEN Returned(<<>>)
    ELSE LET category_transactions ==
                SelectSeq(user_transactions,
                          LAMBDA r : r.category = Head(categories))
             similar == SimilarOfRows(self, category_transactions, user_id, encode_ok)
             rest == PatternsOfCategories(self, Tail(categories), user_transactions,
                                          user_id, top_k, encode_ok)
         IN  IF similar.status # "ok" THEN similar
             ELSE IF rest.status # "ok" THEN rest
             ELSE Returned(
                    <<[category |-> Head(categories),
                       similar |-> Take(SortBySimilarity(<<>>,
                                            UniqueByIndex(similar.results, {})),
                                        top_k)]>>
                    \o rest.results)

\* SimilaritySearchEngine.find_user_similar_patterns
find_user_similar_patterns(self, user_id, top_k, encode_ok) ==
    IF self.transactions_df = <<>> THEN Raised("TypeError")
    ELSE LET user_transactions == RowsOfUser(self.transactions_df[1], user_id)
         IN  IF user_transactions = <<>> THEN Returned(<<>>)
             ELSE PatternsOfCategories(self, UniqueCategories(user_transactions, {}),
                                       user_transactions, user_id, top_k, encode_ok)

\* SimilaritySearchEngine._search_faiss_by_text
search_faiss_by_text(self, query_text, top_k, encode_ok) ==
    IF self.index = <<>> THEN Returned(<<>>)
    ELSE IF ~encode_ok THEN Raised("EncodeError")
    ELSE LET hits == IndexSearch(self.index[1], encode(query_text), top_k)
         IN  CollectResults(hits, self.transactions_df, 0, Len(hits), <<>>)

\* variant: the failure of the store query is not caught
search_weaviate_by_text_uncaught(self, query_text, top_k, store_answer, encode_ok) ==
    IF store_answer = <<>>
        THEN [route |-> "weaviate", store |-> "failed"] @@ Raised("WeaviateError")
    ELSE [route |-> "weaviate", store |-> "answered"]
            @@ Returned(Take(store_answer[1], top_k))

\* SimilaritySearchEngine._search_weaviate_by_text; store_answer is <<>> when
\* the store query raises and <<transactions>> when it answers
search_weaviate_by_text(self, query_text, top_k, store_answer, encode_ok) ==
    IF store_answer = <<>>
        THEN [route |-> "faiss", store |-> "failed"]
                @@ search_faiss_by_text(self, query_text, top_k, encode_ok)
    ELSE [route |-> "weaviate", store |-> "answered"]
            @@ Returned(Take(store_answer[1], top_k))

\* SimilaritySearchEngine.search_by_text
search_by_text(self, query_text, top_k, store_answer, encode_ok) ==
    IF self.weaviate_client
        THEN search_weaviate_by_text(self, query_text, top_k, store_answer, encode_ok)
    ELSE [route |-> "faiss", store |-> "not asked"]
            @@ search_faiss_by_text(self, query_text, top_k, encode_ok)

\* variant: the failure of the batch is not caught
store_in_weaviate_uncaught(client, store_ok) ==
    IF ~client THEN [raised |-> FALSE, log |-> "no mirror"]
    ELSE IF store_ok THEN [raised |-> FALSE, log |-> "stored"]
    ELSE [raised |-> TRUE, log |-> "none"]

\* SimilaritySearchEngine._store_in_weaviate: whether it raises, and what it
\* logs
store_in_weaviate(client, store_ok) ==
    IF ~client THEN [raised |-> FALSE, log |-> "no mirror"]
    ELSE IF store_ok THEN [raised |-> FALSE, log |-> "stored"]
    ELSE [raised |-> FALSE, log |-> "store failed"]

\* SimilaritySearchEngine.build_index: the fields of the engine and the
\* outcome of the call
build_index(self, df, encode_ok, store_ok) ==
    IF ~encode_ok
        THEN [transactions_df |-> <<df>>,
              transaction_embeddings |-> self.transaction_embeddings,
              index |-> self.index,
              status |-> "EncodeError",
              log |-> "none"]
    ELSE LET mirror == store_in_weaviate(self.weaviate_client, store_ok)
         IN  [transactions_df |-> <<df>>,
              transaction_embeddings |-> <<EncodeRows(df)>>,
              index |-> <<EncodeRows(df)>>,
              status |-> IF mirror.raised THEN "WeaviateError" ELSE "ok",
              log |-> mirror.log]

\* SimilaritySearchEngine.__init__: the client, and what is logged
connect_weaviate(weaviate_up) ==
    IF weaviate_up THEN [status |-> "ok", client |-> TRUE, log |-> "initialized"]
    ELSE [status |-> "ok", client |-> FALSE, log |-> "init failed"]

\* SimilaritySearchEngine.save_index: the file afterwards
save_index(self, file) == IF self.index # <<>> THEN self.index ELSE file

\* SimilaritySearchEngine.load_index: self.index afterwards
load_index(self, file) == IF file # <<>> THEN file ELSE self.index

\* QuestionAnswerer._answer_with_vertex_ai
answer_with_vertex_ai(vertex_ai_enabled, generate_ok) ==
    IF ~vertex_ai_enabled THEN Raised("RuntimeError")
    ELSE IF ~generate_ok THEN Raised("GenerateError")
    ELSE Returned(<<"generated answer">>)

\* QuestionAnswerer.answer_question
answer_question(vertex_ai_enabled, generate_ok) ==
    LET answer == answer_with_vertex_ai(vertex_ai_enabled, generate_ok)
    IN  IF answer.status = "ok" THEN [route |-> "vertex_ai"] @@ answer
        ELSE [route |-> "rules"] @@ Returned(<<"rule-based answer">>)

\* no call is being looked at
NoQuery ==
    [op |-> "none", args |-> <<>>, status |-> "none", route |-> "none",
     store |-> "not asked", results |-> <<>>]

\* no engine has been constructed
NoEngine ==
    /\ engine_status = "none"
    /\ weaviate_client = FALSE
    /\ index = <<>>
    /\ transaction_embeddings = <<>>
    /\ transactions_df = <<>>
    /\ index_file = <<>>
    /\ build_status = "none"
    /\ mirror_log = "none"
    /\ last_query = NoQuery

(***************************************************************************)
(* Inputs.                                                                 *)
(***************************************************************************)
\* the transaction rows the tables of the tip specification are drawn from
TxPool ==
    << [user_id |-> 1, category |-> "Medical", amount |-> 120, month |-> 3],
       [user_id |-> 1, category |-> "Medical", amount |-> 80, month |-> 3],
       [user_id |-> 1, category |-> "Medical", amount |-> 200, month |-> 12],
       [user_id |-> 1, category |-> "Medical", amount |-> 600, month |-> 12],
       [user_id |-> 1, category |-> "Charitable Donations", amount |-> 50, month |-> 12],
       [user_id |-> 1, category |-> "Charitable Donations", amount |-> 80, month |-> 12],
       [user_id |-> 1, category |-> "Transportation", amount |-> 200, month |-> 6],
       [user_id |-> 1, category |-> "Groceries", amount |-> 40, month |-> 5],
       [user_id |-> 2, category |-> "Work Equipment", amount |-> 900, month |-> 2] >>

\* the rows of S (a set of positions of pool) in pool order
PickRows(pool, S) == [k \in 1..Cardinality(S) |-> pool[SortedSeq(S)[k]]]

TxTables ==
    {PickRows(TxPool, S) : S \in {T \in SUBSET (1..Len(TxPool)) :
                                     Cardinality(T) \in 1..MaxTx}}

UserTables ==
    { << [user_id |-> 1, occupation_category |-> "Engineer"] >>,
      << [user_id |-> 2, occupation_category |-> "Teacher"] >>,
      << [user_id |-> 1, occupation_category |-> "Engineer"],
         [user_id |-> 2, occupation_category |-> "Teacher"] >>,
      << [user_id |-> 1, occupation_category |-> "Engineer"],
         [user_id |-> 2, occupation_category |-> "Engineer"] >> }

Filing2 == [user_id |-> 2, total_income |-> 40000, total_deductions |-> 2400]

FilingTables ==
    { << Filing2 >>,
      << [user_id |-> 1, total_income |-> 9000, total_deductions |-> 0], Filing2 >>,
      << [user_id |-> 1, total_income |-> 40000, total_deductions |-> 0], Filing2 >>,
      << [user_id |-> 1, total_income |-> 40000, total_deductions |-> 1500], Filing2 >>,
      << [user_id |-> 1, total_income |-> 70000, total_deductions |-> 0], Filing2 >> }

\* the user ids generate_tips_for_user is asked for
UserIds == 1..2

\* patterns dicts a caller builds itself, in the shapes lines 219-226 and
\* 269-283 of tip_generator.py read
CallerPatterns ==
    { [demographic_patterns |->
          [spending_by_occupation |->
              [o \in {"Engineer"} |-> [sum |-> [t |-> "num", v |-> 100000]]]],
       clustering_patterns |->
          [user_clusters |-> << [user_id |-> 1, cluster |-> 0] >>,
           cluster_analysis |->
              [key \in {"cluster_0"} |->
                  [size |-> 1, avg_deduction_rate |-> 125000]]]],
      [demographic_patterns |->
          [spending_by_occupation |->
              [o \in {"Engineer", "Teacher"} |->
                  IF o = "Engineer" THEN EmptyDict
                  ELSE [sum |-> [t |-> "dict", v |-> <<40000>>]]]],
       clustering_patterns |->
          [user_clusters |-> << [user_id |-> 1, cluster |-> 1] >>,
           cluster_analysis |-> EmptyDict]] }

(***************************************************************************)
(* The state machine.                                                      *)
(***************************************************************************)
\* main has not built its all_tips dict
NoTipsArtifact == all_tips = <<>>

NoCall ==
    /\ tip_user = 0
    /\ tip_patterns = EmptyDict
    /\ tip_status = "none"
    /\ tips_all = <<>>
    /\ tips = <<>>

Init ==
    /\ transactions \in TxTables
    /\ users \in UserTables
    /\ filings \in FilingTables
    /\ tx_columns = BaseColumns
    /\ patterns = EmptyDict
    /\ user_features = <<>>
    /\ n_clusters = 0
    /\ analysis_status = "none"
    /\ kmeans_labels = <<>>
    /\ NoDocuments
    /\ NoCall
    /\ NoTipsArtifact
    /\ NoBracketCall
    /\ NoEngine

\* PatternAnalyzer.analyze_patterns(transactions_df, users_df, tax_filings_df,
\* receipt_data, payslip_data)
AnalyzePatterns ==
    LET features == create_user_feature_matrix(transactions, users, filings)
        k == NClusters(Len(features))
        demographic == analyze_demographic_patterns(users, transactions)
    IN  /\ tx_columns' = tx_columns \cup AddedColumns
        /\ user_features' = features
        /\ analysis_status' = "ok"
        /\ \E vendors \in SetOrders(Names(receipt_data, "vendor_name")),
              positions \in SetOrders(Names(payslip_data, "position")),
              departments \in SetOrders(Names(payslip_data, "department")) :
              LET document == analyze_document_patterns(receipt_data, payslip_data,
                                  vendors, positions, departments)
              IN  \/ /\ InsufficientData(features)
                     /\ n_clusters' = 0
                     /\ kmeans_labels' = kmeans_labels
                     /\ patterns' = [demographic_patterns |-> demographic,
                                     document_patterns |-> document,
                                     clustering_patterns |-> ClusteringSkipped]
                  \/ /\ ~InsufficientData(features)
                     /\ n_clusters' = k
                     /\ \E labels \in (IF kmeans_labels = <<>>
                                            THEN Labelings(Len(features), k)
                                         ELSE {kmeans_labels[1]}) :
                           /\ kmeans_labels' = <<labels>>
                           /\ patterns' =
                                [demographic_patterns |-> demographic,
                                 document_patterns |-> document,
                                 clustering_patterns |->
                                    ClusteringResult(features, k, labels)]
        /\ UNCHANGED <<transactions, users, filings, tip_user, tip_patterns,
                       tip_status, tips_all, tips, all_tips, receipt_data,
                       payslip_data, tax_income, tax_rate>>
        /\ UNCHANGED engine_vars

\* TipGenerator.generate_tips_for_user(user_id, transactions_df, users_df,
\* tax_filings_df, p)
GenerateTips(user_id, p) ==
    LET r == generate_tips_for_user(user_id, transactions, tx_columns,
                                    users, filings, p)
    IN  /\ tip_user' = user_id
        /\ tip_patterns' = p
        /\ tip_status' = r.status
        /\ tips_all' = r.all
        /\ tips' = r.returned
        /\ UNCHANGED <<transactions, users, filings, tx_columns, patterns,
                       user_features, n_clusters, analysis_status, all_tips,
                       receipt_data, payslip_data, kmeans_labels,
                       tax_income, tax_rate>>
        /\ UNCHANGED engine_vars

\* main, "Generate tips for all users": after analyze_patterns, one
\* generate_tips_for_user call per users_df['user_id'].unique() with the
\* patterns of the analysis; a call that raises ends main without the dict
GenerateAllTips ==
    /\ analysis_status = "ok"
    /\ LET user_ids == {users[i].user_id : i \in 1..Len(users)}
           user_tips == [user_id \in user_ids |->
                            generate_tips_for_user(user_id, transactions, tx_columns,
                                                   users, filings, patterns)]
       IN  IF \A user_id \in user_ids : user_tips[user_id].status = "ok"
           THEN all_tips' = << [user_id \in user_ids |->
                                   user_tips[user_id].returned] >>
           ELSE UNCHANGED all_tips
    /\ UNCHANGED <<transactions, users, filings, tx_columns, patterns,
                   user_features, n_clusters, analysis_status, tip_user,
                   tip_patterns, tip_status, tips_all, tips, receipt_data,
                   payslip_data, kmeans_labels, tax_income, tax_rate>>
    /\ UNCHANGED engine_vars

Next ==
    \/ AnalyzePatterns
    \/ \E user_id \in UserIds, p \in {patterns} \cup CallerPatterns :
          GenerateTips(user_id, p)
    \/ GenerateAllTips

Spec == Init /\ [][Next]_vars

(***************************************************************************)
(* The clustering specification: n users with one transaction each and a   *)
(* complete user and tax-filing table.                                     *)
(***************************************************************************)
ClusterTx(n) ==
    [i \in 1..n |-> [user_id |-> i, category |-> "Medical",
                     amount |-> 100 * i, month |-> 3]]

ClusterUsers(n) ==
    [i \in 1..n |-> [user_id |-> i,
                     occupation_category |->
                        IF i % 2 = 1 THEN "Engineer" ELSE "Teacher"]]

ClusterFilings(n) ==
    [i \in 1..n |-> [user_id |-> i, total_income |-> 20000 * i,
                     total_deductions |-> 1000]]

InitCluster ==
    /\ \E n \in 1..MaxRows :
          /\ transactions = ClusterTx(n)
          /\ users = ClusterUsers(n)
          /\ filings = ClusterFilings(n)
    /\ tx_columns = BaseColumns
    /\ patterns = EmptyDict
    /\ user_features = <<>>
    /\ n_clusters = 0
    /\ analysis_status = "none"
    /\ kmeans_labels = <<>>
    /\ NoDocuments
    /\ NoCall
    /\ NoTipsArtifact
    /\ NoBracketCall
    /\ NoEngine

\* main.py runs the analysis once per batch
NextCluster == analysis_status = "none" /\ AnalyzePatterns

SpecCluster == InitCluster /\ [][NextCluster]_vars

(***************************************************************************)
(* The batch specification: the pipeline of main.py over tables and        *)
(* processed documents, which may be run again on the same inputs.         *)
(***************************************************************************)
MaxReceipts == 2    \* receipts handed to analyze_patterns

\* the receipts the document processor may have extracted; a missing vendor
\* is "" and a missing amount is 0
ReceiptPool ==
    << [vendor_name |-> "Apotheke", total_amount |-> 25],
       [vendor_name |-> "REWE", total_amount |-> 40],
       [vendor_name |-> "", total_amount |-> 0] >>

ReceiptLists ==
    {PickRows(ReceiptPool, S) : S \in {T \in SUBSET (1..Len(ReceiptPool)) :
                                          Cardinality(T) <= MaxReceipts}}

PayslipPool ==
    << [gross_pay |-> 4000, net_pay |-> 2600,
        position |-> "Engineer", department |-> "Research"],
       [gross_pay |-> 3000, net_pay |-> 2100,
        position |-> "Analyst", department |-> "Research"] >>

PayslipLists == {SubSeq(PayslipPool, 1, n) : n \in 0..Len(PayslipPool)}

BatchTxTables ==
    {PickRows(TxPool, {1, 2, 3}), PickRows(TxPool, {5, 9}), PickRows(TxPool, {7})}

InitBatch ==
    /\ transactions \in BatchTxTables
    /\ users = << [user_id |-> 1, occupation_category |-> "Engineer"],
                  [user_id |-> 2, occupation_category |-> "Teacher"] >>
    /\ filings = << [user_id |-> 1, total_income |-> 40000, total_deductions |-> 0],
                    Filing2 >>
    /\ receipt_data \in ReceiptLists
    /\ payslip_data \in PayslipLists
    /\ tx_columns = BaseColumns
    /\ patterns = EmptyDict
    /\ user_features = <<>>
    /\ n_clusters = 0
    /\ analysis_status = "none"
    /\ kmeans_labels = <<>>
    /\ NoCall
    /\ NoTipsArtifact
    /\ NoBracketCall
    /\ NoEngine

SpecBatch == InitBatch /\ [][Next]_vars

(***************************************************************************)
(* The similarity-engine specification: one caller constructs engines,     *)
(* builds, saves and loads the index and asks queries, one call at a time. *)
(***************************************************************************)
EngineTables ==
    {PickRows(EnginePool, S) :
        S \in {1..k : k \in 1..Min(MaxEngineRows, Len(EnginePool))} \cup
              {(Len(EnginePool) - k + 1)..Len(EnginePool) :
                    k \in 1..Min(MaxEngineRows, Len(EnginePool))}}

TopKs == 1..MaxTopK

QueryTransactions == {EnginePool[1], EnginePool[3]}

QueryCategories == {"Medical", "Groceries", "Travel"}

\* "" is no subcategory
QuerySubcategories == {"", "Prescription", "Dental"}

QueryTexts == {{"Medical"}, {"Groceries", "Market"}}

EngineUserIds == 1..3

\* what the external store may answer to a text query: <<>> is a failure
WeaviateAnswers ==
    { <<>>,
      << <<>> >>,
      << <<[transaction |-> EnginePool[1], similarity_score |-> 950]>> >> }

\* the engine object
Self ==
    [index |-> index,
     transaction_embeddings |-> transaction_embeddings,
     transactions_df |-> transactions_df,
     weaviate_client |-> weaviate_client]

\* the outcome r of the call op(args), as the caller sees it
Outcome(op, args, r) ==
    [op |-> op, args |-> args, status |-> r.status, results |-> r.results,
     route |-> IF "route" \in DOMAIN r THEN r.route ELSE "faiss",
     store |-> IF "store" \in DOMAIN r THEN r.store ELSE "not asked"]

\* no table is loaded and no stage of the pipeline has run
PipelineQuiet ==
    /\ transactions = <<>>
    /\ users = <<>>
    /\ filings = <<>>
    /\ tx_columns = BaseColumns
    /\ patterns = EmptyDict
    /\ user_features = <<>>
    /\ n_clusters = 0
    /\ analysis_status = "none"
    /\ kmeans_labels = <<>>
    /\ NoDocuments
    /\ NoCall
    /\ NoTipsArtifact

PipelineIdle ==
    /\ PipelineQuiet
    /\ NoBracketCall

\* SimilaritySearchEngine(config)
NewEngine(weaviate_up) ==
    LET connection == connect_weaviate(weaviate_up)
    IN  /\ last_query.op = "none"
        /\ engine_status' = connection.status
        /\ weaviate_client' = connection.client
        /\ mirror_log' = connection.log
        /\ index' = <<>>
        /\ transaction_embeddings' = <<>>
        /\ transactions_df' = <<>>
        /\ build_status' = "none"
        /\ UNCHANGED <<index_file, last_query>>
        /\ UNCHANGED pipeline_vars

InitEngine ==
    /\ PipelineIdle
    /\ \E weaviate_up \in BOOLEAN :
          LET connection == connect_weaviate(weaviate_up)
          IN  /\ engine_status = connection.status
              /\ weaviate_client = connection.client
              /\ mirror_log = connection.log
    /\ index = <<>>
    /\ transaction_embeddings = <<>>
    /\ transactions_df = <<>>
    /\ index_file = <<>>
    /\ build_status = "none"
    /\ last_query = NoQuery

\* engine.build_index(df)
BuildIndex(df, encode_ok, store_ok) ==
    LET built == build_index(Self, df, encode_ok, store_ok)
    IN  /\ last_query.op = "none"
        /\ engine_status = "ok"
        /\ transactions_df' = built.transactions_df
        /\ transaction_embeddings' = built.transaction_embeddings
        /\ index' = built.index
        /\ build_status' = built.status
        /\ mirror_log' = built.log
        /\ UNCHANGED <<engine_status, weaviate_client, index_file, last_query>>
        /\ UNCHANGED pipeline_vars

\* engine.save_index(filepath)
SaveIndex ==
    /\ last_query.op = "none"
    /\ engine_status = "ok"
    /\ index_file' = save_index(Self, index_file)
    /\ UNCHANGED <<engine_status, weaviate_client, index, transaction_embeddings,
                   transactions_df, build_status, mirror_log, last_query>>
    /\ UNCHANGED pipeline_vars

\* engine.load_index(filepath)
LoadIndex ==
    /\ last_query.op = "none"
    /\ engine_status = "ok"
    /\ index' = load_index(Self, index_file)
    /\ UNCHANGED <<engine_status, weaviate_client, transaction_embeddings,
                   transactions_df, index_file, build_status, mirror_log, last_query>>
    /\ UNCHANGED pipeline_vars

\* the fields of the engine and the index file
engine_fields == <<engine_status, weaviate_client, index, transaction_embeddings,
                   transactions_df, index_file, build_status, mirror_log>>

\* engine.find_similar_transactions(query_transaction, top_k, exclude_user)
FindSimilarTransactions(query_transaction, top_k, exclude_user, encode_ok) ==
    /\ last_query.op = "none"
    /\ engine_status = "ok"
    /\ last_query' = Outcome("find_similar_transactions",
            [query_transaction |-> query_transaction, top_k |-> top_k,
             exclude_user |-> exclude_user, encode_ok |-> encode_ok],
            find_similar_transactions(Self, query_transaction, top_k, exclude_user,
                                      encode_ok))
    /\ UNCHANGED engine_fields
    /\ UNCHANGED pipeline_vars

\* engine.find_similar_by_category(category, subcategory, top_k=top_k)
FindSimilarByCategory(category, subcategory, top_k) ==
    /\ last_query.op = "none"
    /\ engine_status = "ok"
    /\ last_query' = Outcome("find_similar_by_category",
            [category |-> category, subcategory |-> subcategory, top_k |-> top_k],
            find_similar_by_category(Self, category, subcategory, top_k))
    /\ UNCHANGED engine_fields
    /\ UNCHANGED pipeline_vars

\* engine.find_user_similar_patterns(user_id, top_k)
FindUserSimilarPatterns(user_id, top_k, encode_ok) ==
    /\ last_query.op = "none"
    /\ engine_status = "ok"
    /\ last_query' = Outcome("find_user_similar_patterns",
            [user_id |-> user_id, top_k |-> top_k, encode_ok |-> encode_ok],
            find_user_similar_patterns(Self, user_id, top_k, encode_ok))
    /\ UNCHANGED engine_fields
    /\ UNCHANGED pipeline_vars

\* engine.search_by_text(query_text, top_k)
SearchByText(query_text, top_k, store_answer, encode_ok) ==
    /\ last_query.op = "none"
    /\ engine_status = "ok"
    /\ last_query' = Outcome("search_by_text",
            [query_text |-> query_text, top_k |-> top_k,
             store_answer |-> store_answer, encode_ok |-> encode_ok],
            search_by_text(Self, query_text, top_k, store_answer, encode_ok))
    /\ UNCHANGED engine_fields
    /\ UNCHANGED pipeline_vars

\* QuestionAnswerer.answer_question(question, context)
AnswerQuestion(vertex_ai_enabled, generate_ok) ==
    /\ last_query.op = "none"
    /\ last_query' = Outcome("answer_question",
            [vertex_ai_enabled |-> vertex_ai_enabled, generate_ok |-> generate_ok],
            answer_question(vertex_ai_enabled, generate_ok))
    /\ UNCHANGED engine_fields
    /\ UNCHANGED pipeline_vars

\* the caller is done with the outcome of its call
CallReturned ==
    /\ last_query.op # "none"
    /\ last_query' = NoQuery
    /\ UNCHANGED engine_fields
    /\ UNCHANGED pipeline_vars

NextEngine ==
    \/ \E weaviate_up \in BOOLEAN : NewEngine(weaviate_up)
    \/ \E df \in EngineTables, encode_ok, store_ok \in BOOLEAN :
          BuildIndex(df, encode_ok, store_ok)
    \/ SaveIndex
    \/ LoadIndex
    \/ \E q \in QueryTransactions, top_k \in TopKs, exclude_user \in 0..2,
          encode_ok \in BOOLEAN :
          FindSimilarTransactions(q, top_k, exclude_user, encode_ok)
    \/ \E category \in QueryCategories, subcategory \in QuerySubcategories, top_k \in TopKs :
          FindSimilarByCategory(category, subcategory, top_k)
    \/ \E user_id \in EngineUserIds, top_k \in TopKs, encode_ok \in BOOLEAN :
          FindUserSimilarPatterns(user_id, top_k, encode_ok)
    \/ \E query_text \in QueryTexts, top_k \in TopKs,
          store_answer \in WeaviateAnswers, encode_ok \in BOOLEAN :
          SearchByText(query_text, top_k, store_answer, encode_ok)
    \/ \E vertex_ai_enabled, generate_ok \in BOOLEAN :
          AnswerQuestion(vertex_ai_enabled, generate_ok)
    \/ CallReturned

SpecEngine == InitEngine /\ [][NextEngine]_vars

(***************************************************************************)
(* The tax-bracket specification: _get_tax_bracket asked for incomes at    *)
(* and around the bounds of the bands, in steps of a quarter euro.         *)
(***************************************************************************)
MaxQuarterSteps == 4    \* quarter euros above and below a band bound

\* the bounds of the bands, in euros
BandBounds ==
    {tax_brackets[i][1] : i \in 1..Len(tax_brackets)}
        \cup {tax_brackets[i][2] : i \in 1..(Len(tax_brackets) - 1)}

\* the incomes asked for, in cents
BracketIncomes ==
    {c \in {b * 100 + d * 25 : b \in BandBounds,
                               d \in (0 - MaxQuarterSteps)..MaxQuarterSteps} :
        c >= 0}

InitBracket ==
    /\ PipelineQuiet
    /\ NoEngine
    /\ tax_income \in BracketIncomes
    /\ tax_rate = 0 - 1

\* self._get_tax_bracket(income)
GetTaxBracket ==
    /\ tax_rate' = get_tax_bracket_cents(tax_income)
    /\ UNCHANGED <<transactions, users, filings, tx_columns, patterns,
                   user_features, n_clusters, analysis_status, tip_user,
                   tip_patterns, tip_status, tips_all, tips, all_tips,
                   receipt_data, payslip_data, kmeans_labels, tax_income>>
    /\ UNCHANGED engine_vars

NextBracket == GetTaxBracket

SpecBracket == InitBracket /\ [][NextBracket]_vars

(***************************************************************************)
(* Vocabulary of the properties, stated on the inputs of the last call.    *)
(***************************************************************************)
\* the last call ran the rules: it returned, and the user has a user row
\* and at least one transaction
CallRanRules ==
    /\ tip_status = "ok"
    /\ \E i \in 1..Len(users) : users[i].user_id = tip_user
    /\ \E i \in 1..Len(transactions) : transactions[i].user_id = tip_user

\* the user's total spend in category c
SpendIn(c) ==
    LET idx == {i \in 1..Len(transactions) :
                   /\ transactions[i].user_id = tip_user
                   /\ transactions[i].category = c}
        amt == [i \in idx |-> transactions[i].amount]
    IN  SumOver(idx, amt)

\* the user's filing rows
FilingIdx == {i \in 1..Len(filings) : filings[i].user_id = tip_user}
FirstFiling == filings[CHOOSE i \in FilingIdx : \A j \in FilingIdx : i <= j]

\* claimed deductions and income of the user (0 and 50000 without a filing)
ClaimedDeductions == IF FilingIdx = {} THEN 0 ELSE FirstFiling.total_deductions
UserIncome == IF FilingIdx = {} THEN 50000 ELSE FirstFiling.total_income

\* marginal rate (hundredths) of a whole-euro income, read off the table
MarginalRate(income) ==
    IF income <= 10908 THEN 0
    ELSE IF income <= 15999 THEN 14
    ELSE IF income <= 62809 THEN 24
    ELSE IF income <= 277825 THEN 42
    ELSE 45

\* min(spend * rate, max_annual or unbounded), tenths of a euro
ExpectedDeduction(c) ==
    LET full == SpendIn(c) * deduction_rules[c].deduction_rate
        cap == deduction_rules[c].max_annual * 10
    IN  IF cap = 0 \/ full <= cap THEN full ELSE cap

\* potential deduction minus 20% of the claimed deductions, floored at 0
ExpectedMissed(c) ==
    IF ExpectedDeduction(c) >= 2 * ClaimedDeductions
    THEN ExpectedDeduction(c) - 2 * ClaimedDeductions ELSE 0

\* the emitted tips of a type and category
TipsOf(ts, type, c) ==
    {i \in 1..Len(ts) : ts[i].type = type /\ ts[i].category = c}

\* C1 (as claimed): a deduction_opportunity tip for c is emitted exactly
\* when the user's spend in c is >= min_amount(c) and the estimated missed
\* amount is > 50
C1_EmittedIffSpendReachesMinimum ==
    CallRanRules =>
        \A c \in DeductibleSet :
            (TipsOf(tips_all, "deduction_opportunity", c) # {})
              <=> (/\ SpendIn(c) >= deduction_rules[c].min_amount
                   /\ ExpectedMissed(c) > 500)

\* the Medical transactions 120, 80 and 200 and zero claimed deductions
MedicalScenario ==
    /\ CallRanRules
    /\ LET idx == {i \in 1..Len(transactions) :
                      /\ transactions[i].user_id = tip_user
                      /\ transactions[i].category = "Medical"}
       IN  /\ Cardinality(idx) = 3
           /\ {transactions[i].amount : i \in idx} = {120, 80, 200}
    /\ ClaimedDeductions = 0

\* every emitted deduction tip carries the deduction, savings and confidence
\* of the rule
DeductionTipValues ==
    \A i \in 1..Len(tips_all) :
        tips_all[i].type = "deduction_opportunity" =>
            LET c == tips_all[i].category
            IN  /\ tips_all[i].potential_deduction = ExpectedDeduction(c)
                /\ tips_all[i].potential_savings =
                      ExpectedMissed(c) * MarginalRate(UserIncome) * 100
                /\ tips_all[i].confidence = 8

DecemberCharitable ==
    {i \in 1..Len(transactions) :
        /\ transactions[i].user_id = tip_user
        /\ transactions[i].category = "Charitable Donations"
        /\ transactions[i].month = 12}

DecemberCharitableTotal ==
    SumOver(DecemberCharitable,
            [i \in DecemberCharitable |-> transactions[i].amount])

\* C3 (as claimed): with a December charitable donation there is exactly
\* one timing tip for the category, worth 10% of the December total, of
\* confidence 0.7
C3_TimingTipTenPercentOfTotal ==
    (CallRanRules /\ DecemberCharitable # {}) =>
        /\ Cardinality(TipsOf(tips_all, "timing_optimization",
                              "Charitable Donations")) = 1
        /\ \A i \in TipsOf(tips_all, "timing_optimization",
                           "Charitable Donations") :
              /\ tips_all[i].potential_savings = DecemberCharitableTotal * 10000
              /\ tips_all[i].confidence = 7

\* the occupation of the user of the last call
UserOccupation ==
    LET idx == {i \in 1..Len(users) : users[i].user_id = tip_user}
    IN  users[CHOOSE i \in idx : \A j \in idx : i <= j].occupation_category

\* aggregate spend of an occupation: the transactions of its users
OccupationSpend(o) ==
    LET idx == {i \in 1..Len(transactions) :
                   \E j \in 1..Len(users) :
                      /\ users[j].user_id = transactions[i].user_id
                      /\ users[j].occupation_category = o}
    IN  SumOver(idx, [i \in idx |-> transactions[i].amount])

\* the last call was given the patterns analyze_patterns produced
PipelineCall ==
    /\ analysis_status = "ok"
    /\ tip_patterns = patterns
    /\ CallRanRules

\* C4 (as claimed): in the pipeline a category_optimization tip of
\* confidence 0.5 is emitted for c exactly when the user's spend in c is
\* below half of occupation spend x ratio
C4_PeerComparisonInPipeline ==
    PipelineCall =>
        \A c \in DeductibleSet :
            LET ratio == IF c = "Professional Development" THEN 10 ELSE 5
                under == SpendIn(c) * 200 < OccupationSpend(UserOccupation) * ratio
                found == TipsOf(tips_all, "category_optimization", c)
            IN  /\ under => (found # {} /\ \A i \in found : tips_all[i].confidence = 5)
                /\ ~under => found = {}

\* the tips the rules emit for the last call, before sorting
CallEmitted ==
    LET uidx == {i \in 1..Len(users) : users[i].user_id = tip_user}
        user_info == users[CHOOSE i \in uidx : \A j \in uidx : i <= j]
    IN  EmittedTips(tip_user, UserRows(transactions, tip_user), user_info,
                    FirstOrNone(UserRows(filings, tip_user)), tip_patterns)

\* C5: the returned list is sorted by non-increasing potential_savings x
\* confidence, holds at most 10 tips (all of them when at most 10 were
\* emitted), and no emitted tip that was dropped has a score strictly
\* greater than a retained one
C5_SortedTopTen ==
    CallRanRules =>
        /\ \A i, j \in 1..Len(tips) :
              i < j => tips[i].potential_savings * tips[i].confidence
                         >= tips[j].potential_savings * tips[j].confidence
        /\ Len(tips) <= 10
        /\ Len(CallEmitted) <= 10 => Len(tips) = Len(CallEmitted)
        /\ Len(CallEmitted) > 10 => Len(tips) = 10
        /\ \A e \in 1..Len(CallEmitted) :
              \/ \E r \in 1..Len(tips) :
                    /\ tips[r].type = CallEmitted[e].type
                    /\ tips[r].category = CallEmitted[e].category
                    /\ tips[r].potential_savings = CallEmitted[e].potential_savings
                    /\ tips[r].confidence = CallEmitted[e].confidence
              \/ \A r \in 1..Len(tips) :
                    CallEmitted[e].potential_savings * CallEmitted[e].confidence
                      <= tips[r].potential_savings * tips[r].confidence

\* more than ten tips were emitted, ten were returned and the scores differ
C5_Witness ==
    /\ CallRanRules
    /\ Len(CallEmitted) > 10
    /\ Len(tips) = 10
    /\ tips[1].potential_savings * tips[1].confidence
          > tips[10].potential_savings * tips[10].confidence

PriorityRank(p) == CASE p = "HIGH" -> 3 [] p = "MEDIUM" -> 2 [] p = "LOW" -> 1

\* C6: the priority of every returned tip is HIGH when its score is above
\* 200, MEDIUM when in (50, 200], LOW when at most 50; a tip of strictly
\* greater score never has the lower priority
C6_PriorityByScore ==
    /\ \A i \in 1..Len(tips) :
          LET score == tips[i].potential_savings * tips[i].confidence
          IN  /\ score > 200000000 => tips[i].priority = "HIGH"
              /\ (score > 50000000 /\ score <= 200000000)
                    => tips[i].priority = "MEDIUM"
              /\ score <= 50000000 => tips[i].priority = "LOW"
    /\ \A i, j \in 1..Len(tips) :
          tips[i].potential_savings * tips[i].confidence
             > tips[j].potential_savings * tips[j].confidence
          => PriorityRank(tips[i].priority) >= PriorityRank(tips[j].priority)

\* one returned list holds a HIGH, a MEDIUM and a LOW tip
C6_Witness ==
    /\ \E i \in 1..Len(tips) : tips[i].priority = "HIGH"
    /\ \E i \in 1..Len(tips) :
          /\ tips[i].priority = "MEDIUM"
          /\ tips[i].potential_savings * tips[i].confidence <= 100000000
    /\ \E i \in 1..Len(tips) : tips[i].priority = "LOW"

\* the three digits of a rank below 1000
ThreeDigits(n) ==
    ToString(n \div 100) \o ToString((n \div 10) % 10) \o ToString(n % 10)

\* C7: the tip at 1-based position i of the returned list has tip_id
\* TIP_<user>_<i as three digits>; the ids of one list are pairwise distinct
C7_TipIdIsRank ==
    /\ \A i \in 1..Len(tips) :
          tips[i].tip_id = "TIP_" \o ToString(tip_user) \o "_" \o ThreeDigits(i)
    /\ \A i, j \in 1..Len(tips) : i # j => tips[i].tip_id # tips[j].tip_id

\* a returned list of ten tips, the last one numbered 010
C7_Witness ==
    /\ Len(tips) = 10
    /\ tips[1].tip_id = "TIP_1_001"
    /\ tips[10].tip_id = "TIP_1_010"

\* the user ids of the transaction table
TxUserIds == {transactions[i].user_id : i \in 1..Len(transactions)}

HasUserRow(u) == \E i \in 1..Len(users) : users[i].user_id = u
HasFilingRow(u) == \E i \in 1..Len(filings) : filings[i].user_id = u

\* C8 (as claimed): the feature matrix is never completed when a user_id of
\* the transaction table has no user row or no filing row (the build raises
\* instead), so no such user is silently left out of a completed matrix
C8_MissingKeyRaises ==
    analysis_status = "ok" =>
        \A u \in TxUserIds : HasUserRow(u) /\ HasFilingRow(u)

\* the category columns a feature row would carry its spend shares in
TxCategories == {transactions[i].category : i \in 1..Len(transactions)}

\* C9 (as claimed): every user with a transaction has exactly one feature
\* row, and the row holds one share per category, summing to 100%
C9_OneRowWithShares ==
    analysis_status = "ok" =>
        \A u \in TxUserIds :
            LET rows == {i \in 1..Len(user_features) :
                            user_features[i].user_id = u}
            IN  /\ Cardinality(rows) = 1
                /\ \A i \in rows :
                      /\ TxCategories \subseteq DOMAIN user_features[i]
                      /\ SumOver(TxCategories,
                                 [c \in TxCategories |-> user_features[i][c]])
                            = 10000

\* C10: clustering asks for min(4, rows) clusters, never more than there
\* are feature rows; with fewer than 2 rows nothing is clustered and the
\* result holds the insufficient-data note alone
C10_ClusterCount ==
    analysis_status = "ok" =>
        LET rows == Len(user_features)
            result == patterns.clustering_patterns
        IN  /\ rows >= 2 =>
                /\ n_clusters = (IF rows < 4 THEN rows ELSE 4)
                /\ n_clusters <= rows
                /\ DOMAIN result = {"cluster_analysis", "user_clusters"}
                /\ Cardinality(DOMAIN result.cluster_analysis) = n_clusters
            /\ rows < 2 =>
                /\ n_clusters = 0
                /\ DOMAIN result = {"clustering_note"}
                /\ result.clustering_note = "Insufficient data for clustering"

\* five feature rows were clustered into four clusters
C10_Witness ==
    /\ analysis_status = "ok"
    /\ Len(user_features) > 4
    /\ n_clusters = 4
    /\ "user_clusters" \in DOMAIN patterns.clustering_patterns

(***************************************************************************)
(* Properties of the cluster summaries.                                    *)
(***************************************************************************)
\* a clustering ran over at least two feature rows
Clustered ==
    /\ analysis_status = "ok"
    /\ Len(user_features) >= 2
    /\ "user_clusters" \in DOMAIN patterns.clustering_patterns

ClusterIds == 0..(n_clusters - 1)

\* the rows of the feature matrix assigned to cluster c, in row order
ClusterMembers(c) ==
    LET uc == patterns.clustering_patterns.user_clusters
    IN  SelectSeq([i \in 1..Len(uc) |->
                      [row |-> user_features[i], cluster |-> uc[i].cluster]],
                  LAMBDA m : m.cluster = c)

\* C11: after a clustering over n >= 2 feature rows user_clusters has one
\* (user_id, cluster) entry per feature row, in row order, with cluster in
\* 0..k-1, and the sizes of cluster_0..cluster_{k-1} sum to n
C11_OneClusterPerRow ==
    (analysis_status = "ok" /\ Len(user_features) >= 2) =>
        LET result == patterns.clustering_patterns
            uc == result.user_clusters
        IN  /\ Len(uc) = Len(user_features)
            /\ \A i \in 1..Len(uc) :
                  /\ DOMAIN uc[i] = {"user_id", "cluster"}
                  /\ uc[i].user_id = user_features[i].user_id
                  /\ uc[i].cluster \in ClusterIds
            /\ DOMAIN result.cluster_analysis = {ClusterKey(c) : c \in ClusterIds}
            /\ SumOver(ClusterIds,
                       [c \in ClusterIds |->
                           result.cluster_analysis[ClusterKey(c)].size])
                  = Len(user_features)

\* five rows were clustered, one cluster is empty and one has several members
C11_Witness ==
    /\ Clustered
    /\ Len(user_features) = MaxRows
    /\ \E c, d \in ClusterIds :
          /\ patterns.clustering_patterns.cluster_analysis[ClusterKey(c)].size = 0
          /\ patterns.clustering_patterns.cluster_analysis[ClusterKey(d)].size >= 2

\* the first element of members (in row order) among the most frequent
\* occupations
FirstEncounteredMode(members) ==
    LET Count(o) == Cardinality({i \in 1..Len(members) :
                                    members[i].row.occupation_category = o})
        best == {i \in 1..Len(members) :
                    \A j \in 1..Len(members) :
                        Count(members[j].row.occupation_category)
                            <= Count(members[i].row.occupation_category)}
    IN  members[CHOOSE i \in best : \A j \in best : i <= j].row.occupation_category

\* C12: dominant_occupation of a cluster is the most frequent
\* occupation_category of its members; of several tied for most frequent it
\* is the one that occurs first in row order
C12_DominantFirstEncountered ==
    Clustered =>
        \A c \in ClusterIds :
            ClusterMembers(c) # <<>> =>
                patterns.clustering_patterns.cluster_analysis[ClusterKey(c)]
                        .dominant_occupation
                    = FirstEncounteredMode(ClusterMembers(c))

\* C13: analyze_patterns leaves the tables it is given as they were: the
\* same columns and the same rows
C13_InputTablesUnchanged ==
    [][(analysis_status = "none" /\ analysis_status' = "ok") =>
          /\ tx_columns' = tx_columns
          /\ transactions' = transactions
          /\ users' = users
          /\ filings' = filings]_vars

(***************************************************************************)
(* Properties of the similarity engine.                                    *)
(***************************************************************************)
\* the queries answered from the local index
LocalSearchOps ==
    {"find_similar_transactions", "find_similar_by_category", "search_by_text"}

\* the call the caller is looking at was answered from the local index
LocalQuery ==
    /\ last_query.op \in LocalSearchOps \cup {"find_user_similar_patterns"}
    /\ last_query.route = "faiss"

\* the (index, score) pairs of a result list
IndexScores(results) ==
    [i \in 1..Len(results) |->
        [index |-> results[i].index,
         similarity_score |-> results[i].similarity_score]]

\* C14: whenever the index is set, the index, the stored embeddings and the
\* stored table describe the same transactions, position i of the vectors
\* being row i of the table, and every index a search returns points at
\* the transaction whose vector was matched
C14_IndexInLockstep ==
    index # <<>> =>
        /\ transactions_df # <<>>
        /\ transaction_embeddings # <<>>
        /\ Len(index[1]) = Len(transactions_df[1])
        /\ Len(transaction_embeddings[1]) = Len(transactions_df[1])
        /\ \A i \in 1..Len(index[1]) :
              /\ index[1][i] = encode(Description(transactions_df[1][i]))
              /\ transaction_embeddings[1][i] = index[1][i]
        /\ (last_query.op \in LocalSearchOps /\ last_query.route = "faiss"
                /\ last_query.status = "ok") =>
              \A i \in 1..Len(last_query.results) :
                  encode(Description(last_query.results[i].transaction))
                      = index[1][last_query.results[i].index + 1]

\* no build_index of this engine has completed
NoBuildCompleted == transaction_embeddings = <<>>

\* C15: a query asked of the local index before build_index has completed
\* raises 'Index not built' or returns nothing
C15_NoQueryBeforeBuild ==
    (LocalQuery /\ NoBuildCompleted) =>
        \/ last_query.status = "Index not built"
        \/ /\ last_query.status = "ok"
           /\ last_query.results = <<>>

\* a fresh engine that loaded the saved index and has built nothing
LoadedFromArtifact ==
    /\ index # <<>>
    /\ index = index_file
    /\ transactions_df = <<>>
    /\ transaction_embeddings = <<>>

\* C16: an engine that loaded the saved index serves
\* find_similar_transactions, find_similar_by_category and the local text
\* search without build_index, with the (index, score) pairs the index gives
C16_ArtifactRoundTrip ==
    (LoadedFromArtifact /\ last_query.op \in LocalSearchOps
        /\ last_query.route = "faiss") =>
        LET a == last_query.args
        IN  /\ last_query.op = "find_similar_by_category" =>
                last_query.status = "ok"
            /\ (last_query.op = "find_similar_transactions" /\ a.encode_ok
                    /\ a.exclude_user = 0) =>
                /\ last_query.status = "ok"
                /\ IndexScores(last_query.results)
                     = IndexSearch(index[1],
                                   encode(Description(a.query_transaction)),
                                   a.top_k)
            /\ (last_query.op = "search_by_text" /\ a.encode_ok) =>
                /\ last_query.status = "ok"
                /\ IndexScores(last_query.results)
                     = IndexSearch(index[1], encode(a.query_text), a.top_k)

\* C17: the external store being unavailable is never fatal: a failed
\* connection leaves an engine without a client that answers text searches
\* from the local index, and a build whose mirror step fails still ends
\* normally with the index, the embeddings and the table of the new rows
C17_StoreFailureNotFatal ==
    [][/\ \A weaviate_up \in BOOLEAN :
             NewEngine(weaviate_up) =>
                /\ engine_status' = "ok"
                /\ ~weaviate_up => (~weaviate_client' /\ mirror_log' = "init failed")
       /\ (last_query'.op = "search_by_text" /\ ~weaviate_client') =>
             /\ last_query'.route = "faiss"
             /\ last_query'.store = "not asked"
       /\ \A df \in EngineTables :
             (weaviate_client /\ BuildIndex(df, TRUE, FALSE)) =>
                /\ build_status' = "ok"
                /\ mirror_log' = "store failed"
                /\ transactions_df' = <<df>>
                /\ transaction_embeddings' = <<EncodeRows(df)>>
                /\ index' = <<EncodeRows(df)>>]_vars

\* a query was answered from the index of a build whose mirror step failed
C17_Witness ==
    /\ mirror_log = "store failed"
    /\ build_status = "ok"
    /\ last_query.op = "find_similar_transactions"
    /\ last_query.status = "ok"
    /\ last_query.results # <<>>

\* C18: search_by_text asks the external store whenever a client is
\* configured; it answers from the local index when there is no client or
\* the store query fails, and the failure of the store query never reaches
\* the caller, who gets what the local text search gives
C18_TextSearchPrefersStore ==
    last_query.op = "search_by_text" =>
        LET a == last_query.args
            local == search_faiss_by_text(Self, a.query_text, a.top_k, a.encode_ok)
        IN  /\ weaviate_client => last_query.store \in {"answered", "failed"}
            /\ ~weaviate_client => last_query.store = "not asked"
            /\ last_query.route = "weaviate"
                  <=> (weaviate_client /\ a.store_answer # <<>>)
            /\ last_query.route = "weaviate" =>
                  /\ last_query.status = "ok"
                  /\ last_query.results = Take(a.store_answer[1], a.top_k)
            /\ last_query.route # "weaviate" =>
                  /\ last_query.route = "faiss"
                  /\ last_query.status = local.status
                  /\ last_query.results = local.results
            /\ last_query.status # "WeaviateError"

\* the store query failed and the caller got transactions of the local index
C18_Witness ==
    /\ last_query.op = "search_by_text"
    /\ weaviate_client
    /\ last_query.store = "failed"
    /\ last_query.route = "faiss"
    /\ last_query.status = "ok"
    /\ last_query.results # <<>>

\* C19: a failing call of the embedding model or of the generative model
\* never ends build_index or the calling operation with an error
C19_ModelFailureFallsBack ==
    /\ build_status \notin {"EncodeError"}
    /\ last_query.op # "none" =>
          last_query.status \notin {"EncodeError", "GenerateError", "RuntimeError"}

(***************************************************************************)
(* Reproducibility of the batch.                                           *)
(***************************************************************************)
\* p is a result of analyze_patterns
FromAnalysis(p) == "document_patterns" \in DOMAIN p

\* the ids and priorities of the returned tips, in order
TipKeys ==
    [i \in 1..Len(tips) |-> [tip_id |-> tips[i].tip_id, priority |-> tips[i].priority]]

\* C20: a second run of the pipeline on the same inputs gives the same
\* pattern aggregates, each list in the same order, and for every user the
\* same tip ids and priorities
C20_RerunIdentical ==
    [][/\ (analysis_status = "ok" /\ analysis_status' = "ok") =>
             patterns' = patterns
       /\ (/\ tip_status = "ok" /\ FromAnalysis(tip_patterns)
           /\ tip_status' = "ok" /\ FromAnalysis(tip_patterns')
           /\ tip_user' = tip_user) =>
             TipKeys' = TipKeys]_vars

(***************************************************************************)
(* Properties of the tax-bracket lookup.                                   *)
(***************************************************************************)
\* the bands that contain an income given in cents; the last band has no
\* upper bound
BandsContaining(cents) ==
    {i \in 1..Len(tax_brackets) :
        /\ tax_brackets[i][1] * 100 <= cents
        /\ i < Len(tax_brackets) => cents <= tax_brackets[i][2] * 100}

\* C21: _get_tax_bracket returns the rate of the first band that contains
\* the income, and 0.45 when no band contains it
C21_FirstContainingBand ==
    tax_rate # 0 - 1 =>
        LET containing == BandsContaining(tax_income)
        IN  IF containing = {} THEN tax_rate = 45
            ELSE tax_rate
                    = tax_brackets[CHOOSE i \in containing :
                                       \A j \in containing : i <= j][3]

\* the lookup was asked for an income between two bands and answered 0.45
C21_Witness ==
    /\ tax_rate = 45
    /\ tax_income = 1090850
    /\ BandsContaining(tax_income) = {}

\* C30: the rate _get_tax_bracket returns never decreases as the
\* non-negative income grows, incomes between two bands included
C30_RateMonotone ==
    tax_rate # 0 - 1 =>
        \A lower \in BracketIncomes :
            lower <= tax_income => get_tax_bracket_cents(lower) <= tax_rate


(***************************************************************************)
(* Peer-learning tip (tip_generator.py 263-306)                            *)
(***************************************************************************)
\* the cluster assignments and per-cluster summaries of the patterns the
\* last call was given (none when clustering was skipped)
CallAssignments ==
    Get(Get(tip_patterns, "clustering_patterns", EmptyDict), "user_clusters", <<>>)
CallClusterAnalysis ==
    Get(Get(tip_patterns, "clustering_patterns", EmptyDict), "cluster_analysis", EmptyDict)

\* positions of the asked user in the assignments
CallAssigned == {i \in 1..Len(CallAssignments) : CallAssignments[i].user_id = tip_user}

\* the asked user is assigned to a cluster whose summary records an
\* avg_deduction_rate above 5 percent
UserInGoodCluster ==
    /\ CallAssigned # {}
    /\ LET first == CHOOSE i \in CallAssigned : \A j \in CallAssigned : i <= j
           key == ClusterKey(CallAssignments[first].cluster)
       IN  /\ key \in DOMAIN CallClusterAnalysis
           /\ "avg_deduction_rate" \in DOMAIN CallClusterAnalysis[key]
           /\ CallClusterAnalysis[key].avg_deduction_rate > 50000

HasLargeDeductible ==
    \E i \in 1..Len(transactions) :
        /\ transactions[i].user_id = tip_user
        /\ transactions[i].amount > 500
        /\ transactions[i].category \in DeductibleSet

\* the asked user filed an income above 60000 euros
FiledHighIncome == FilingIdx # {} /\ FirstFiling.total_income > 60000

MedicalMonths ==
    {transactions[i].month : i \in
        {j \in 1..Len(transactions) :
            transactions[j].user_id = tip_user /\ transactions[j].category = "Medical"}}
MedicalTotal(m) ==
    LET Test(r) == r.user_id = tip_user /\ r.category = "Medical" /\ r.month = m
    IN  AmountSum(SelectSeq(transactions, Test))

\* the sample standard deviation of the monthly Medical totals is above 100:
\* with n months, the squared differences over all pairs of months sum to
\* n * (n - 1) times the sample variance
MedicalStdAbove100 ==
    LET n == Cardinality(MedicalMonths)
        pairs == {a * 13 + b : a \in MedicalMonths, b \in MedicalMonths} \cap
                 {c \in 0..(13 * 13) : c \div 13 < c % 13}
        sq == [c \in pairs |->
                  (MedicalTotal(c \div 13) - MedicalTotal(c % 13))
                * (MedicalTotal(c \div 13) - MedicalTotal(c % 13))]
    IN  /\ n >= 2
        /\ SumOver(pairs, sq) > 10000 * n * (n - 1)

C24_WitnessSingleMonth ==
    /\ CallRanRules
    /\ Cardinality(MedicalMonths) = 1
    /\ \E m \in MedicalMonths : MedicalTotal(m) > 100


(***************************************************************************)
(* Exclusion and de-duplication of search results                          *)
(* (similarity_search.py 119-156, 197-229)                                 *)
(***************************************************************************)
\* the last call is a find_similar_transactions that excluded a user and
\* returned
ExcludingSearch ==
    /\ last_query.op = "find_similar_transactions"
    /\ last_query.status = "ok"
    /\ last_query.args.exclude_user # 0

\* the last call is a find_user_similar_patterns that returned
PatternSearch ==
    /\ last_query.op = "find_user_similar_patterns"
    /\ last_query.status = "ok"

\* C25: find_similar_transactions with exclude_user = u returns at most top_k
\* results and none of user u; find_user_similar_patterns(u) returns for
\* every category at most top_k results, none of them a transaction of u and
\* no index twice.
C25_ExclusionAndDedup ==
    /\ ExcludingSearch =>
          /\ Len(last_query.results) <= last_query.args.top_k
          /\ \A i \in 1..Len(last_query.results) :
                last_query.results[i].transaction.user_id
                    # last_query.args.exclude_user
    /\ PatternSearch =>
          \A c \in 1..Len(last_query.results) :
              LET similar == last_query.results[c].similar
              IN  /\ Len(similar) <= last_query.args.top_k
                  /\ \A i \in 1..Len(similar) :
                        similar[i].transaction.user_id # last_query.args.user_id
                  /\ \A i, j \in 1..Len(similar) :
                        similar[i].index = similar[j].index => i = j

\* find_user_similar_patterns for a user with two transactions of one
\* category, both of which are most similar to the same transaction of
\* another user, returned that transaction
C25_Witness ==
    /\ PatternSearch
    /\ transactions_df # <<>>
    /\ Len(RowsOfUser(transactions_df[1], last_query.args.user_id)) = 2
    /\ Len(UniqueCategories(RowsOfUser(transactions_df[1], last_query.args.user_id), {})) = 1
    /\ Len(last_query.results) = 1
    /\ Len(last_query.results[1].similar) = 1

\* find_similar_transactions skipped the excluded user's row and returned
\* another user's
C25_WitnessExcluding ==
    /\ ExcludingSearch
    /\ transactions_df # <<>>
    /\ RowsOfUser(transactions_df[1], last_query.args.exclude_user) # <<>>
    /\ last_query.results # <<>>


(***************************************************************************)
(* Category search without a match (similarity_search.py 158-168)          *)
(***************************************************************************)
\* the last call is a find_similar_by_category on an engine whose last
\* build_index completed
CategorySearchOnBuiltIndex ==
    /\ last_query.op = "find_similar_by_category"
    /\ build_status = "ok"
    /\ index # <<>>
    /\ transactions_df # <<>>

\* the rows of the engine's table the asked category (and subcategory, when
\* one is given) matches
CategoryMatches ==
    {i \in 1..Len(transactions_df[1]) :
        /\ transactions_df[1][i].category = last_query.args.category
        /\ \/ last_query.args.subcategory = ""
           \/ transactions_df[1][i].subcategory = last_query.args.subcategory}

IndexOfTable ==
    /\ index # <<>>
    /\ transactions_df # <<>>
    /\ index[1] = EncodeRows(transactions_df[1])

\* the indexed transactions that do not belong to the excluded user
OtherUsersRows ==
    SelectSeq(transactions_df[1],
              LAMBDA r : r.user_id # last_query.args.exclude_user)

\* C29: find_similar_transactions with exclude_user = u returns exactly
\* min(top_k, number of indexed transactions not belonging to u) results.
C29_ExactCountUnderExclusion ==
    (ExcludingSearch /\ IndexOfTable) =>
        Len(last_query.results) = Min(last_query.args.top_k, Len(OtherUsersRows))


(***************************************************************************)
(* Insufficient data and the tips artifact (tip_generator.py 78-86,        *)
(* main.py 81-89)                                                          *)
(***************************************************************************)
\* the user ids of the user table
TableUserIds == {users[i].user_id : i \in 1..Len(users)}

\* the last call was for a user without a user row or without transactions
CallLacksData ==
    /\ tip_status # "none"
    /\ tip_user \notin TableUserIds \/ tip_user \notin TxUserIds

\* C27: for a user with no row in the user table or with no transactions
\* generate_tips_for_user returns the empty list and raises nothing, and the
\* all_tips dict main builds has one entry for every user_id of the user
\* table, the empty list for a user without transactions.
C27_InsufficientDataIsEmpty ==
    /\ CallLacksData => (tip_status = "ok" /\ tips = <<>>)
    /\ all_tips # <<>> =>
          /\ DOMAIN all_tips[1] = TableUserIds
          /\ \A u \in TableUserIds \ TxUserIds : all_tips[1][u] = <<>>

\* main built the dict for a user table in which one user has transactions
\* and tips and another has none
C27_Witness ==
    /\ all_tips # <<>>
    /\ \E u \in TableUserIds : u \notin TxUserIds /\ all_tips[1][u] = <<>>
    /\ \E u \in TableUserIds : all_tips[1][u] # <<>>

\* a direct call for a user who has transactions but no user row
C27_WitnessNoUserRow ==
    /\ CallLacksData
    /\ tip_user \in TxUserIds
    /\ tip_user \notin TableUserIds
    /\ tips = <<>>

(***************************************************************************)
(* Dependence on analyze_patterns (tip_generator.py 184-188,               *)
(* pattern_analyzer.py 97-99)                                              *)
(***************************************************************************)
\* the last call was made on a transaction table without the 'month' column
CallWithoutMonth == tip_status # "none" /\ "month" \notin tx_columns

\* C28: called on a table without the 'month' column, generate_tips_for_user
\* returns the tips it returns on the same table after analyze_patterns added
\* the column, and does not fail for a user with Medical transactions.
C28_NoDependenceOnAnalysis ==
    CallWithoutMonth =>
        /\ tip_status = "ok"
        /\ tips = generate_tips_for_user(tip_user, transactions,
                                         tx_columns \cup AddedColumns, users,
                                         filings, tip_patterns).returned

====
